---- MODULE Spec2Model ----
(***************************************************************************)
(* A model of the B-Minor compiler back end of this repository:            *)
(*   - the semantic analyzer Check (checker.py) with the diagnostic sink   *)
(*     (errors.py), driven as bminor.py's check() drives it;               *)
(*   - the LLVM IR generator Codegen with its IREmitter (bminor2llvm.py),  *)
(*     driven by the module-level driver of bminor2llvm.py.                *)
(* The analyzer is a small-step machine: one action per visit method and   *)
(* per resumption point of a visit method after a nested accept() returns. *)
(***************************************************************************)
EXTENDS Integers, Sequences, FiniteSets, TLC

(***************************************************************************)
(* Bounds of the model.                                                    *)
(***************************************************************************)
MaxStmts == 2

\* the largest literal size of an array declaration, and the longest initializer
MaxSize == 2

MaxElems == 3

MaxCalls == 4

(***************************************************************************)
(* AST nodes (model.py).  A node is a record tagged by its class name k,   *)
(* every field under the name the dataclass gives it.                      *)
(***************************************************************************)
None == [k |-> "None"]

SimpleType(name) == [k |-> "SimpleType", name |-> name]

ArrayType(base, size) == [k |-> "ArrayType", base |-> base, size |-> size]

FuncType(ret, params) == [k |-> "FuncType", ret |-> ret, params |-> params]

Param(name, type, lineno) ==
    [k |-> "Param", name |-> name, type |-> type, lineno |-> lineno]

Identifier(name, lineno) == [k |-> "Identifier", name |-> name, lineno |-> lineno]

Integer(value, lineno) ==
    [k |-> "Integer", value |-> value, type |-> "integer", lineno |-> lineno]

Float(value, lineno) ==
    [k |-> "Float", value |-> value, type |-> "float", lineno |-> lineno]

Boolean(value, lineno) ==
    [k |-> "Boolean", value |-> value, type |-> "boolean", lineno |-> lineno]

BinOper(oper, left, right, lineno) ==
    [k |-> "BinOper", oper |-> oper, left |-> left, right |-> right, lineno |-> lineno]

Call(func, args, lineno) ==
    [k |-> "Call", func |-> func, args |-> args, lineno |-> lineno]

ArrayIndex(array, index, lineno) ==
    [k |-> "ArrayIndex", array |-> array, index |-> index, lineno |-> lineno]

Assign(target, value, lineno) ==
    [k |-> "Assign", target |-> target, value |-> value, lineno |-> lineno]

VarDecl(name, type, init, lineno) ==
    [k |-> "VarDecl", name |-> name, type |-> type, init |-> init, lineno |-> lineno]

PrintStmt(args, lineno) == [k |-> "PrintStmt", args |-> args, lineno |-> lineno]

ReturnStmt(expr, lineno) == [k |-> "ReturnStmt", expr |-> expr, lineno |-> lineno]

Block(stmts, lineno) == [k |-> "Block", stmts |-> stmts, lineno |-> lineno]

IfStmt(cond, then, otherwise, lineno) ==
    [k |-> "IfStmt", cond |-> cond, then |-> then, otherwise |-> otherwise,
     lineno |-> lineno]

ForStmt(init, cond, step, body, lineno) ==
    [k |-> "ForStmt", init |-> init, cond |-> cond, step |-> step, body |-> body,
     lineno |-> lineno]

WhileStmt(cond, body, lineno) ==
    [k |-> "WhileStmt", cond |-> cond, body |-> body, lineno |-> lineno]

DoWhileStmt(body, cond, lineno) ==
    [k |-> "DoWhileStmt", body |-> body, cond |-> cond, lineno |-> lineno]

\* Node classes that checker.py's fallback visit recognises by class name.
\* model.py defines neither of them and parser.py has no rule that builds one.
BreakStmt(lineno) == [k |-> "BreakStmt", lineno |-> lineno]

ContinueStmt(lineno) == [k |-> "ContinueStmt", lineno |-> lineno]

Program(body) == [k |-> "Program", body |-> body, lineno |-> 0]

LiteralKinds == {"Integer", "Float", "Boolean"}

IsLiteral(n) == n.k \in LiteralKinds

(***************************************************************************)
(* Type helpers of checker.py.  A resolved type is the string the code     *)
(* builds; Python's None is the string "None" (no type has that name).     *)
(***************************************************************************)
NoType == "None"

RECURSIVE JoinComma(_)
JoinComma(ss) ==
    IF Len(ss) = 0 THEN ""
    ELSE IF Len(ss) = 1 THEN ss[1]
    ELSE ss[1] \o ", " \o JoinComma(Tail(ss))

RECURSIVE resolve_type(_)
resolve_type(t) ==
    CASE t.k = "None" -> NoType
      [] t.k = "SimpleType" -> t.name
      [] t.k = "ArrayType" ->
           LET base == resolve_type(t.base)
               size_repr == IF t.size.k = "Integer" THEN ToString(t.size.value) ELSE ""
           IN "array[" \o size_repr \o "] " \o base
      [] t.k = "FuncType" ->
           LET r == IF t.ret.k = "None" THEN "void" ELSE resolve_type(t.ret)
               ps == [i \in 1..Len(t.params) |-> resolve_type(t.params[i].type)]
           IN "function " \o r \o "(" \o JoinComma(ps) \o ")"
      [] OTHER -> NoType

\* typesys.typenames (typesys.py is not part of the sources at hand).
typenames == {"integer", "float", "boolean", "char", "string", "void"}

is_type(tname, original) ==
    IF tname = NoType THEN FALSE
    ELSE IF original.k = "ArrayType" THEN resolve_type(original.base) \in typenames
    ELSE tname \in typenames

\* the texts resolve_type puts between the brackets of an array type
SizeReprs == {""} \cup {ToString(n) : n \in 0..9}

\* array_base_from_name: the last word of a name that starts with "array"
array_base_from_name(tname) ==
    LET bases == {b \in typenames :
                    \E sz \in SizeReprs : tname = "array[" \o sz \o "] " \o b}
    IN IF bases = {} THEN NoType ELSE CHOOSE b \in bases : TRUE

types_equal(a, b) == a = b

\* typesys.check_binop: arithmetic needs equal numeric operands and gives that
\* type; comparisons need compatible operands and give boolean; && and ||
\* need boolean operands.
check_binop(oper, lt, rt) ==
    CASE oper \in {"+", "-", "*", "/", "%"} ->
           IF lt = rt /\ lt \in {"integer", "float"} THEN lt ELSE NoType
      [] oper \in {"<", "<=", ">", ">=", "==", "!="} ->
           IF lt = rt /\ lt \in typenames \ {"void"} THEN "boolean" ELSE NoType
      [] oper \in {"&&", "||"} ->
           IF lt = "boolean" /\ rt = "boolean" THEN "boolean" ELSE NoType
      [] OTHER -> NoType

(***************************************************************************)
(* State.                                                                  *)
(***************************************************************************)
VARIABLES
    source,           \* the program text, as [wrapper, forms] (see Wrap, Stmts)
    runs,             \* the runs of Check.run: where the current one started
                      \* in _MSGS, and the diagnostics of each finished one
    calls,            \* the calls made on errors.py from outside the analyzer
    program,          \* the AST the parser built from it
    pc,               \* position of the driver
    HAD_ERRORS,       \* errors._HAD_ERRORS
    MSGS,             \* errors._MSGS
    fun_ret_stack,    \* Check._fun_ret_stack
    fun_name_stack,   \* Check._fun_name_stack
    saw_return_stack, \* Check._saw_return_stack
    loop_depth,       \* Check._loop_depth
    inits,            \* Check._inits: id(scope) -> (name -> bool)
    lhs_mode,         \* Check._lhs_mode
    symtabs,          \* the live Symtab objects, innermost last
    stack,            \* pending visit calls and resumption points, next first
    vals,             \* types returned to resumption points, latest first
    gpc,              \* position of the module-level driver of bminor2llvm.py
    check,            \* whether the checker module named on the command line has "check"
    cg,               \* the Codegen object, its IREmitter in cg.ir
    idx,              \* position of gen_program in prog.body
    fn_scope,         \* _gen_function's fn_scope, while a function is generated
    sidx,             \* position of _gen_block in the body of that function
    output_ir,        \* the driver's output_ir
    out_ll,           \* the file out.ll
    stdout            \* what the driver wrote to sys.stdout

chk_vars == <<HAD_ERRORS, MSGS, fun_ret_stack, fun_name_stack, saw_return_stack,
              loop_depth, inits, lhs_mode, symtabs, stack, vals>>

gen_vars == <<gpc, check, cg, idx, fn_scope, sidx, output_ir, out_ll, stdout>>

vars == <<source, runs, calls, program, pc, chk_vars, gen_vars>>


(***************************************************************************)
(* Diagnostic sink (errors.py).                                            *)
(***************************************************************************)
Msg(kind, text, lineno) == [kind |-> kind, text |-> text, lineno |-> lineno]

\* error(text, lineno): the message appended by one call.
error(text, lineno) == Msg("Error", text, lineno)

\* The effect on the sink of the calls error(m) for m in msgs, in order.
Report(msgs) ==
    /\ MSGS' = MSGS \o msgs
    /\ HAD_ERRORS' = (HAD_ERRORS \/ msgs # <<>>)

errors_detected == HAD_ERRORS

\* The three functions that write the sink, as functions of its state
\* s = [had |-> _HAD_ERRORS, msgs |-> _MSGS].
Sink == [had |-> HAD_ERRORS, msgs |-> MSGS]

clear_errors(s) == [had |-> FALSE, msgs |-> <<>>]

sink_error(s, text, lineno, kind) ==
    [had |-> TRUE, msgs |-> Append(s.msgs, Msg(kind, text, lineno))]

\* a warn that counts as an error
sink_warn_flagging(s, text, lineno, kind) ==
    [had |-> TRUE, msgs |-> Append(s.msgs, Msg(kind, text, lineno))]

sink_warn(s, text, lineno, kind) ==
    [had |-> s.had, msgs |-> Append(s.msgs, Msg(kind, text, lineno))]

E_UBA == "Uso de variable antes de asignacion: "
E_UNDECLARED == "Identificador no declarado: "
E_MAIN_RET == "Tipo de retorno invalido para 'main' (debe ser void)"
E_NO_BODY == "Falta cuerpo de funcion "
E_NO_RETURN == "La funcion no retorna un valor: "
E_BREAK == "break fuera de un bucle"
E_CONTINUE == "continue fuera de un bucle"
E_DUP == "DuplicateSymbol: "
E_FN_UNDECLARED == "Funcion no declarada: "
E_ARITY == "Argumentos invalidos para "
E_ARG == "Argumento incompatible en "

(***************************************************************************)
(* Symtab (symtab.py is not part of the sources at hand; modelled from the *)
(* specification section 4.1 and from the uses checker.py makes of it).    *)
(* A scope reference is an index into symtabs; 0 is "no parent".           *)
(***************************************************************************)
NoDecl == [k |-> "None"]

Symtab(id, name, parent) ==
    [id |-> id, name |-> name, parent |-> parent, table |-> <<>>]

Decl(n) == [k |-> n.k, name |-> n.name, type |-> n.type]

\* Symtab.get(name): this scope first, then the parent chain.
RECURSIVE SymGet(_, _, _)
SymGet(tabs, ref, name) ==
    IF ref = 0 THEN NoDecl
    ELSE IF name \in DOMAIN tabs[ref].table THEN tabs[ref].table[name]
    ELSE SymGet(tabs, tabs[ref].parent, name)

\* Symtab.add(name, decl) raises when name is already in this scope.
SymAddRaises(tabs, ref, name) == name \in DOMAIN tabs[ref].table

SymAdd(tabs, ref, name, decl) ==
    IF SymAddRaises(tabs, ref, name) THEN tabs
    ELSE [tabs EXCEPT ![ref].table = @ @@ (name :> decl)]

\* The identities a new Symtab object may get: id() of an object is unique
\* among the live objects only, so a new scope gets either an identity that
\* no entry of _inits mentions, or the identity of a scope that was left.
LiveIds(tabs) == {tabs[i].id : i \in 1..Len(tabs)}

FreshId(tabs, ini) ==
    LET used == LiveIds(tabs) \cup DOMAIN ini
    IN CHOOSE i \in 1..(Cardinality(used) + 1) : i \notin used

NewIds(tabs, ini) == (DOMAIN ini \ LiveIds(tabs)) \cup {FreshId(tabs, ini)}

\* Check._scope(name, parent) with the identity the new object gets.
NewScope(tabs, id, name, parent) == Append(tabs, Symtab(id, name, parent))

\* A scope object is dropped when the visit that created it returns.
DropScope(tabs) == SubSeq(tabs, 1, Len(tabs) - 1)

(***************************************************************************)
(* Initialization tracking (checker.py, Check._inits).                     *)
(***************************************************************************)
RECURSIVE find_decl_env(_, _, _)
find_decl_env(tabs, ref, name) ==
    IF ref = 0 THEN 0
    ELSE IF name \in DOMAIN tabs[ref].table THEN ref
    ELSE find_decl_env(tabs, tabs[ref].parent, name)

init_map(ini, id) == IF id \in DOMAIN ini THEN ini[id] ELSE <<>>

PutInit(ini, id, name, value) ==
    LET m == init_map(ini, id)
        m2 == [x \in DOMAIN m \cup {name} |-> IF x = name THEN value ELSE m[x]]
    IN [i \in DOMAIN ini \cup {id} |-> IF i = id THEN m2 ELSE ini[i]]

set_initialized(tabs, ini, ref, name, value) ==
    LET decl_env == find_decl_env(tabs, ref, name)
    IN IF decl_env = 0 THEN ini
       ELSE PutInit(ini, tabs[decl_env].id, name, value)

\* Check._is_initialized: "True", "False", or "None" when no map on the chain
\* mentions the name.
RECURSIVE is_initialized(_, _, _, _)
is_initialized(tabs, ini, ref, name) ==
    IF ref = 0 THEN "None"
    ELSE LET m == init_map(ini, tabs[ref].id)
         IN IF name \in DOMAIN m
            THEN (IF m[name] THEN "True" ELSE "False")
            ELSE is_initialized(tabs, ini, tabs[ref].parent, name)

(***************************************************************************)
(* The analyzer's control: pending calls and resumption points.            *)
(***************************************************************************)
Frame(t, n, env, keep, i) == [t |-> t, n |-> n, env |-> env, keep |-> keep, i |-> i]

\* n.accept(self, env); keep says whether the caller reads n.type afterwards.
Visit(n, env, keep) == Frame("visit", n, env, keep, 0)

Top == Head(stack)

Rest == Tail(stack)

Visiting(kinds) ==
    /\ pc = "check"
    /\ stack # <<>>
    /\ Top.t = "visit"
    /\ Top.n.k \in kinds

At(t) ==
    /\ pc = "check"
    /\ stack # <<>>
    /\ Top.t = t

\* return from an expression visit with n.type = type
Ret(keep, type) == IF keep THEN <<type>> \o vals ELSE vals

(***************************************************************************)
(* The programs analysed: a list of at most MaxStmts statements, each one  *)
(* of the statement forms below, as top-level declarations or as the body  *)
(* of a function.                                                          *)
(* Every node has a line of its own: statement i of a list owns the lines  *)
(* 10*i .. 10*i+9.                                                         *)
(***************************************************************************)
TInt == SimpleType("integer")

TBool == SimpleType("boolean")

TFloat == SimpleType("float")

X(l) == Identifier("x", l)

\* a: array[3] integer = {1, 2, 3};
A3(l) ==
    VarDecl("a", ArrayType(TInt, Integer(3, l + 1)),
            Call(Identifier("array_init", l),
                 <<Integer(1, l + 2), Integer(2, l + 3), Integer(3, l + 4)>>, l), l)

\* name: array[n] integer = {e1, ..., en};
Arr(name, elems, l) ==
    VarDecl(name, ArrayType(TInt, Integer(Len(elems), l + 1)),
            Call(Identifier("array_init", l),
                 [i \in DOMAIN elems |-> Integer(elems[i], l + 1 + i)], l), l)

\* target = value;  and  callee(args);  over names
Id(name, l) == Identifier(name, l)

AssignNames(target, value, l) == Assign(Id(target, l + 1), Id(value, l + 2), l)

CallNames(callee, args, l) ==
    Call(Id(callee, l + 1), [i \in DOMAIN args |-> Id(args[i], l + 1 + i)], l)

\* x: boolean = true;
XBool(l) == VarDecl("x", TBool, Boolean(TRUE, l + 1), l)

StmtForms == 1..16

\* The prints of one binary operation over the variables of the wrapper
\* "arrays" (x, z: integer;  b: boolean) and the float r of form 54.
BinaryForms ==
    (80 :> <<"x", "+", "z">>) @@ (81 :> <<"b", "+", "x">>) @@ (82 :> <<"x", "+", "r">>)
    @@ (83 :> <<"x", "<", "z">>) @@ (84 :> <<"b", "==", "b">>) @@ (85 :> <<"r", "<", "x">>)

\* The array declarations  v: array[N] integer = {1, ..., 1};  with k elements:
\* form 100 + 10*N + k.
ArrayForms == {100 + 10 * N + k : N \in 0..MaxSize, k \in 0..MaxElems}

ArrayDecl(N, k, l) ==
    VarDecl("v", ArrayType(TInt, Integer(N, l + 1)),
            Call(Identifier("array_init", l),
                 [i \in 1..k |-> Integer(1, l + 1 + i)], l), l)

Stmt(j, l) ==
    CASE j = 1 -> VarDecl("x", TInt, None, l)                  \* x: integer;
      [] j = 2 -> VarDecl("y", TInt, X(l + 1), l)              \* y: integer = x;
      [] j = 3 -> Assign(X(l + 1), Integer(1, l + 2), l)       \* x = 1;
      [] j = 4 -> PrintStmt(<<X(l + 1)>>, l)                   \* print(x);
      [] j = 5 ->                                              \* if (true) x = 1;
           IfStmt(Boolean(TRUE, l + 1),
                  Assign(X(l + 2), Integer(1, l + 3), l + 4), None, l)
      [] j = 6 ->                                   \* while (true) { x = 1; break; }
           WhileStmt(Boolean(TRUE, l + 1),
                     Block(<<Assign(X(l + 2), Integer(1, l + 3), l + 4),
                             BreakStmt(l + 5)>>, l + 6), l)
      [] j = 7 -> BreakStmt(l)                                 \* break;
      [] j = 8 ->                                              \* if (a > 0) return 1;
           IfStmt(BinOper(">", Identifier("a", l + 1), Integer(0, l + 2), l + 3),
                  ReturnStmt(Integer(1, l + 4), l + 5), None, l)
      [] j = 9 ->                                              \* f(1, zz);
           Call(Identifier("f", l + 1),
                <<Integer(1, l + 2), Identifier("zz", l + 3)>>, l)
      [] j = 10 ->                                  \* do { continue; } while (true);
           DoWhileStmt(Block(<<ContinueStmt(l + 1)>>, l + 2), Boolean(TRUE, l + 3), l)
      [] j = 11 ->                        \* for (x = 0; x < 1; x = x + 1) print(x);
           ForStmt(Assign(X(l + 1), Integer(0, l + 2), l + 3),
                   BinOper("<", X(l + 4), Integer(1, l + 5), l + 4),
                   Assign(X(l + 6),
                          BinOper("+", X(l + 7), Integer(1, l + 8), l + 7), l + 6),
                   PrintStmt(<<X(l + 9)>>, l + 9), l)
      [] j = 12 -> ReturnStmt(Integer(1, l + 1), l)            \* return 1;
      [] j = 13 ->                                             \* { x: integer = 1; }
           Block(<<VarDecl("x", TInt, Integer(1, l + 1), l + 2)>>, l)
      [] j = 14 ->                                  \* v: array[2] integer = {1, 2};
           VarDecl("v", ArrayType(TInt, Integer(2, l + 1)),
                   Call(Identifier("array_init", l),
                        <<Integer(1, l + 2), Integer(2, l + 3)>>, l), l)
      [] j = 15 ->                                \* if (a > 0) return 1; else return 2;
           IfStmt(BinOper(">", Identifier("a", l + 1), Integer(0, l + 2), l + 3),
                  ReturnStmt(Integer(1, l + 4), l + 5),
                  ReturnStmt(Integer(2, l + 6), l + 7), l)
      [] j = 16 -> ContinueStmt(l)                             \* continue;
      [] j = 17 ->                                             \* { print(x); }
           Block(<<PrintStmt(<<X(l + 1)>>, l + 2)>>, l)
      [] j = 18 -> VarDecl("x", TBool, None, l)                \* x: boolean;
      [] j = 19 ->                         \* { x: boolean = true; y: integer = x; }
           Block(<<XBool(l + 1), VarDecl("y", TInt, X(l + 3), l + 4)>>, l)
      [] j = 20 ->                                  \* if (true) x: boolean = true;
           IfStmt(Boolean(TRUE, l + 1), XBool(l + 2), None, l)
      [] j = 21 ->                               \* while (false) x: boolean = true;
           WhileStmt(Boolean(FALSE, l + 1), XBool(l + 2), l)
      [] j = 22 -> VarDecl("a", TBool, None, l)                \* a: boolean;
      [] j = 23 -> VarDecl("y", TInt, Identifier("a", l + 1), l)    \* y: integer = a;
      [] j = 26 -> Block(<<VarDecl("a", TBool, None, l + 1)>>, l)    \* { a: boolean; }
      [] j = 27 ->                                             \* { print(a); }
           Block(<<PrintStmt(<<Id("a", l + 1)>>, l + 2)>>, l)
      [] j = 28 -> CallNames("f", <<"a">>, l)                  \* f(a);
      [] j = 30 -> AssignNames("v", "w", l)                    \* v = w;
      [] j = 31 -> AssignNames("v", "u", l)                    \* v = u;
      [] j = 32 -> AssignNames("x", "b", l)                    \* x = b;
      [] j = 33 -> AssignNames("x", "z", l)                    \* x = z;
      [] j = 34 -> AssignNames("v", "x", l)                    \* v = x;
      [] j = 40 -> CallNames("g", <<"v">>, l)                  \* g(v);
      [] j = 41 -> CallNames("g", <<"x">>, l)                  \* g(x);
      [] j = 42 -> CallNames("g", <<>>, l)                     \* g();
      [] j = 43 -> CallNames("g", <<"v", "v">>, l)             \* g(v, v);
      [] j = 44 -> CallNames("h", <<"v">>, l)                  \* h(v);
      [] j = 45 -> CallNames("x", <<"v">>, l)                  \* x(v);
      [] j = 46 -> CallNames("k", <<"x">>, l)                  \* k(x);
      [] j = 47 -> CallNames("k", <<"b">>, l)                  \* k(b);
      [] j = 50 -> VarDecl("n", TInt, Integer(2, l + 1), l)    \* n: integer = 2;
      [] j = 51 ->                                             \* m: integer = 1 + 2;
           VarDecl("m", TInt, BinOper("+", Integer(1, l + 1), Integer(2, l + 2), l + 3), l)
      [] j = 52 -> VarDecl("t", TBool, Boolean(TRUE, l + 1), l)     \* t: boolean = true;
      [] j = 53 -> VarDecl("k", TInt, Id("n", l + 1), l)       \* k: integer = n;
      [] j = 54 -> VarDecl("r", TFloat, Float(2, l + 1), l)    \* r: float = 2.0;
      [] j = 60 ->                                             \* v[x = 0] = z;
           Assign(ArrayIndex(Id("v", l + 1),
                             Assign(X(l + 2), Integer(0, l + 3), l + 4), l + 5),
                  Id("z", l + 6), l)
      [] j = 61 ->                                             \* x = (z = 1);
           Assign(X(l + 1), Assign(Id("z", l + 2), Integer(1, l + 3), l + 4), l)
      [] j = 62 ->                                             \* v[x] = 1;
           Assign(ArrayIndex(Id("v", l + 1), X(l + 2), l + 3), Integer(1, l + 4), l)
      [] j = 70 -> Assign(X(l + 1), Float(2, l + 2), l)        \* x = 2.0;
      [] j = 71 -> VarDecl("q", TInt, Float(2, l + 1), l)      \* q: integer = 2.0;
      [] j = 72 ->                                             \* v[0] = 2.0;
           Assign(ArrayIndex(Id("v", l + 1), Integer(0, l + 2), l + 3),
                  Float(2, l + 4), l)
      [] j = 74 -> AssignNames("x", "r", l)                    \* x = r;
      [] j \in DOMAIN BinaryForms ->                           \* print(left oper right);
           PrintStmt(<<BinOper(BinaryForms[j][2], Id(BinaryForms[j][1], l + 1),
                               Id(BinaryForms[j][3], l + 2), l + 3)>>, l)
      [] j = 90 ->                                    \* print(array_length(p));
           PrintStmt(<<CallNames("array_length", <<"p">>, l + 1)>>, l)
      [] j = 91 ->                                    \* print(array_length(q));
           PrintStmt(<<CallNames("array_length", <<"q">>, l + 1)>>, l)
      [] j = 95 ->      \* inner: function integer() = { while (true) { x = 1; return 1; } }
           VarDecl("inner", FuncType(TInt, <<>>),
                   Block(<<WhileStmt(Boolean(TRUE, l + 1),
                                     Block(<<Assign(X(l + 2), Integer(1, l + 3), l + 4),
                                             ReturnStmt(Integer(1, l + 5), l + 6)>>,
                                           l + 7), l + 8)>>, l + 9), l)
      [] j = 96 -> VarDecl("x", TInt, Integer(1, l + 1), l)    \* x: integer = 1;
      [] j = 24 -> A3(l)                          \* a: array[3] integer = {1, 2, 3};
      [] j = 25 ->                                             \* print(a[1]);
           PrintStmt(<<ArrayIndex(Identifier("a", l + 1), Integer(1, l + 2), l + 3)>>, l)
      [] j \in ArrayForms -> ArrayDecl((j - 100) \div 10, (j - 100) % 10, l)

Stmts(forms) == [i \in 1..Len(forms) |-> Stmt(forms[i], 10 * i)]

FormLists == UNION {[1..n -> StmtForms] : n \in 1..MaxStmts}

Wrappers == {"top", "fn", "main", "pair"}

\* the wrappers that declare a name twice in one scope
DupWrappers == {"dup", "params"}

\* the wrappers with a main that returns nothing
VoidWrappers == {"vmain", "amain"}

\* the forms that are declarations: the grammar's top level is a decl_list
DeclForms == {1, 2, 14}

TVoid == SimpleType("void")

\* top:  the declarations at the top level
\* fn:   x: integer;  f: function integer(a: integer) = { statements }
\* main: main: function integer() = { statements }
\* pair: x: integer;  g: function void(t1: integer) = { }
\*       f: function integer(a: integer) = { statements }
\* dup:  x: integer;  x: boolean;  f: function integer(a: integer) = { statements }
\* params: f: function integer(a: integer, a: boolean) = { statements }
\* vmain: main: function void() = { statements }
\* arrays: g: function void(p: array[] integer) = { }
\*       k: function void(n: integer) = { }
\*       main: function void() = { v: array[2] integer = {1, 2};
\*            w: array[1] integer = {1};  u: array[2] integer = {3, 4};
\*            x: integer = 1;  z: integer = 2;  b: boolean = true;  statements }
\* after: g: function void() = { { a: boolean; } }
\*       f: function integer(a: integer) = { statements }
\* globals: statements  main: function void() = { }
\* lengths: h: function void() = { p: array[2] integer = {1, 2}; }
\*       g: function void(p: array[] integer, q: array[] integer) = { statements }
\*       main: function void() = { v: array[1] integer = {1}; g(v, v); }
\* amain: a: array[3] integer = {1, 2, 3};  main: function void() = { statements }
Wrap(w, stmts) ==
    CASE w = "top" -> Program(stmts)
      [] w = "fn" ->
           Program(<<VarDecl("x", TInt, None, 1),
                     VarDecl("f", FuncType(TInt, <<Param("a", TInt, 3)>>),
                             Block(stmts, 4), 2)>>)
      [] w = "main" ->
           Program(<<VarDecl("main", FuncType(TInt, <<>>), Block(stmts, 4), 2)>>)
      [] w = "dup" ->
           Program(<<VarDecl("x", TInt, None, 1), VarDecl("x", TBool, None, 5),
                     VarDecl("f", FuncType(TInt, <<Param("a", TInt, 3)>>),
                             Block(stmts, 4), 2)>>)
      [] w = "params" ->
           Program(<<VarDecl("f", FuncType(TInt, <<Param("a", TInt, 3),
                                                   Param("a", TBool, 6)>>),
                             Block(stmts, 4), 2)>>)
      [] w = "arrays" ->
           Program(<<VarDecl("g", FuncType(TVoid, <<Param("p", ArrayType(TInt, None), 6)>>),
                             Block(<<>>, 7), 5),
                     VarDecl("k", FuncType(TVoid, <<Param("n", TInt, 8)>>),
                             Block(<<>>, 9), 3),
                     VarDecl("main", FuncType(TVoid, <<>>),
                             Block(<<Arr("v", <<1, 2>>, 50), Arr("w", <<1>>, 60),
                                     Arr("u", <<3, 4>>, 70),
                                     VarDecl("x", TInt, Integer(1, 81), 80),
                                     VarDecl("z", TInt, Integer(2, 83), 82),
                                     VarDecl("b", TBool, Boolean(TRUE, 86), 85)>>
                                   \o stmts, 4), 2)>>)
      [] w = "after" ->
           Program(<<VarDecl("g", FuncType(TVoid, <<>>),
                             Block(<<Block(<<VarDecl("a", TBool, None, 8)>>, 7)>>, 6), 5),
                     VarDecl("f", FuncType(TInt, <<Param("a", TInt, 3)>>),
                             Block(stmts, 4), 2)>>)
      [] w = "vmain" ->
           Program(<<VarDecl("main", FuncType(TVoid, <<>>), Block(stmts, 4), 2)>>)
      [] w = "globals" ->
           Program(stmts \o <<VarDecl("main", FuncType(TVoid, <<>>), Block(<<>>, 4), 2)>>)
      [] w = "lengths" ->
           Program(<<VarDecl("h", FuncType(TVoid, <<>>),
                             Block(<<Arr("p", <<1, 2>>, 50)>>, 7), 5),
                     VarDecl("g", FuncType(TVoid, <<Param("p", ArrayType(TInt, None), 6),
                                                    Param("q", ArrayType(TInt, None), 8)>>),
                             Block(stmts, 4), 2),
                     VarDecl("main", FuncType(TVoid, <<>>),
                             Block(<<Arr("v", <<1>>, 60),
                                     CallNames("g", <<"v", "v">>, 70)>>, 9), 3)>>)
      [] w = "amain" ->
           Program(<<A3(90),
                     VarDecl("main", FuncType(TVoid, <<>>), Block(stmts, 4), 2)>>)
      [] w = "pair" ->
           Program(<<VarDecl("x", TInt, None, 1),
                     VarDecl("g", FuncType(TVoid, <<Param("t1", TInt, 6)>>),
                             Block(<<>>, 7), 5),
                     VarDecl("f", FuncType(TInt, <<Param("a", TInt, 3)>>),
                             Block(stmts, 4), 2)>>)

Sources ==
    {src \in [wrapper : Wrappers, forms : FormLists] :
        src.wrapper = "top" => \A i \in DOMAIN src.forms : src.forms[i] \in DeclForms}

\* the programs that are one array declaration or two
ArraySources ==
    {[wrapper |-> "top", forms |-> fs] :
        fs \in UNION {[1..n -> ArrayForms] : n \in {1, 2}}}

\* the forms that read x, in the scope of the function body or in a block of
\* their own, next to a block that declares an x of its own
ScopeForms == {4, 13, 17}

\* the functions, with and without a global x, whose statements open and leave
\* scopes
ScopeSources ==
    {[wrapper |-> w, forms |-> fs] :
        w \in {"fn", "main"},
        fs \in UNION {[1..n -> ScopeForms] : n \in 1..MaxStmts}}

\* the forms that declare x or a, in a scope that holds the name already or in
\* a scope of their own, and the forms that tell which declaration a name is
\* bound to afterwards
DupForms == {1, 2, 18, 19, 20, 21, 22, 23}

\* the functions whose statements declare names again
DupSources ==
    {[wrapper |-> w, forms |-> fs] :
        w \in {"fn"} \cup DupWrappers,
        fs \in UNION {[1..n -> DupForms] : n \in 1..MaxStmts}}

\* the forms that declare the array a and print an element of it
IndexForms == {24, 25}

\* the mains that declare the array, globally or locally, and read it
IndexSources ==
    {[wrapper |-> w, forms |-> fs] :
        w \in VoidWrappers,
        fs \in UNION {[1..n -> IndexForms] : n \in 1..MaxStmts}}

\* the assignments between the variables of the wrapper "arrays", and the
\* calls of its functions
AssignForms == {30, 31, 32, 33, 34}

CallForms == {40, 41, 42, 43, 44, 45, 46, 47}

\* one assignment or one call each: the statements do not depend on each other
TypedSources ==
    {[wrapper |-> "arrays", forms |-> <<j>>] : j \in AssignForms \cup CallForms}

\* the assignments to a scalar and to an array element, one of them inside
\* the index of the target or inside the value of another
LvalueForms == {33, 60, 61, 62}

LvalueSources ==
    {[wrapper |-> "arrays", forms |-> <<j>>] : j \in LvalueForms}

\* a function declared inside a function body, with a loop and a return of its
\* own, next to a loop, a break and a return of the enclosing function
NestedForms == {6, 7, 12, 95}

NestedSources ==
    {[wrapper |-> w, forms |-> fs] :
        w \in {"fn", "main"},
        fs \in UNION {[1..n -> NestedForms] : n \in {1, 2}}}

\* the declarations of x, with and without an initializer, and the reads of x;
\* in the wrapper "arrays" they follow `x: integer = 1;` in the same block
RedeclareForms == {1, 2, 4, 18, 96}

RedeclareSources ==
    {[wrapper |-> w, forms |-> fs] :
        w \in {"arrays", "main"},
        fs \in UNION {[1..n -> RedeclareForms] : n \in {1, 2}}}

\* the forms that call the function they are in and read its parameter
RecursionForms == {4, 8, 26, 27, 28}

RecursionSources ==
    {[wrapper |-> w, forms |-> fs] :
        w \in {"fn", "after"},
        fs \in UNION {[1..n -> RecursionForms] : n \in 1..MaxStmts}}

\* the global scalars with an initializer: a literal, or an expression
GlobalForms == {50, 51, 52, 53, 54}

\* the programs that are global scalars followed by an empty main
GlobalSources ==
    {[wrapper |-> "globals", forms |-> fs] :
        fs \in UNION {[1..n -> GlobalForms] : n \in 1..MaxStmts}}

\* the stores of a float into an integer: by an assignment to a scalar, by
\* the initializer of a declaration, by an assignment to an array element
FloatStoreForms == {54, 70, 71, 72, 74}

\* the functions that store floats: x is a local of main, or a global
FloatStoreSources ==
    {[wrapper |-> w, forms |-> fs] :
        w \in {"arrays", "fn"},
        fs \in UNION {[1..n -> FloatStoreForms] : n \in 1..MaxStmts}}

\* the declaration of the float r, and the binary operations
LoweringForms == {54} \cup DOMAIN BinaryForms

LoweringSources ==
    {[wrapper |-> "arrays", forms |-> fs] :
        fs \in UNION {[1..n -> LoweringForms] : n \in 1..MaxStmts}}

\* the length queries on the array parameters of a function
LengthForms == {90, 91}

\* the functions that ask the lengths of their parameters, called with arrays
\* of a known length, next to a function with a local array of the same name
LengthSources ==
    {[wrapper |-> "lengths", forms |-> fs] :
        fs \in UNION {[1..n -> LengthForms] : n \in 1..MaxStmts}}

\* the programs given to the analyzer
CheckSources ==
    Sources \cup ArraySources \cup ScopeSources \cup DupSources \cup IndexSources
    \cup TypedSources \cup RecursionSources \cup LvalueSources \cup NestedSources
    \cup RedeclareSources

\* the programs given to the generator
GenSources == Sources \cup IndexSources \cup GlobalSources \cup FloatStoreSources
    \cup LoweringSources \cup LengthSources

\* the programs analysed and then compiled: every program of one statement,
\* and the mains that read the array
PipelineSources == {src \in Sources : Len(src.forms) = 1} \cup IndexSources

\* the programs analysed twice: every program of one statement, and the
\* functions whose statements open and leave scopes
TwiceSources ==
    {src \in CheckSources : Len(src.forms) = 1}
    \cup {[wrapper |-> "fn", forms |-> fs] :
             fs \in UNION {[1..n -> ScopeForms] : n \in 1..MaxStmts}}

\* The tree Check.run and gen_program are given for a source: its declarations
\* as nodes of model.py, every field holding the part of the source it names.
\* How parser.py passes the parts to the constructors is outside this model.
ParseTree(src) == Wrap(src.wrapper, Stmts(src.forms))

(***************************************************************************)
(* bminor.py, check(): parse, then Check.run unless the parser reported    *)
(* errors, then the report.                                                *)
(***************************************************************************)
\* errors.clear_errors() followed by Parser().parse(tokens); a syntax error is
\* reported through errors.error and leaves no tree to analyse.
Parse ==
    /\ pc = "start"
    /\ \E syntax_ok \in BOOLEAN :
          /\ MSGS' = IF syntax_ok THEN <<>> ELSE <<error("Syntax error", 0)>>
          /\ HAD_ERRORS' = ~syntax_ok
          /\ pc' = IF syntax_ok THEN "parsed" ELSE "syntax_errors"
          /\ program' = IF syntax_ok THEN ParseTree(source) ELSE None
    /\ UNCHANGED <<gen_vars, source, runs, calls, fun_ret_stack, fun_name_stack, saw_return_stack,
                   loop_depth, inits, lhs_mode, symtabs, stack, vals>>

\* Check.run: a fresh analyzer, the global scope, program.accept(self, global_env)
CheckRun ==
    /\ pc = "parsed"
    /\ pc' = "check"
    /\ fun_ret_stack' = <<>>
    /\ fun_name_stack' = <<>>
    /\ saw_return_stack' = <<>>
    /\ loop_depth' = 0
    /\ inits' = <<>>
    /\ lhs_mode' = FALSE
    /\ symtabs' = <<Symtab(1, "global", 0)>>
    /\ stack' = <<Visit(program, 1, FALSE)>>
    /\ vals' = <<>>
    /\ runs' = [runs EXCEPT !.start = Len(MSGS)]
    /\ UNCHANGED <<gen_vars, source, calls, program, HAD_ERRORS, MSGS>>

\* Check.run once more on the same tree: a fresh analyzer and a fresh global
\* scope; the sink keeps what it holds.
CheckRunAgain ==
    /\ pc \in {"semantic_errors", "semantic_ok"}
    /\ Len(runs.done) = 1
    /\ pc' = "check"
    /\ fun_ret_stack' = <<>>
    /\ fun_name_stack' = <<>>
    /\ saw_return_stack' = <<>>
    /\ loop_depth' = 0
    /\ inits' = <<>>
    /\ lhs_mode' = FALSE
    /\ symtabs' = <<Symtab(1, "global", 0)>>
    /\ stack' = <<Visit(program, 1, FALSE)>>
    /\ vals' = <<>>
    /\ runs' = [runs EXCEPT !.start = Len(MSGS)]
    /\ UNCHANGED <<gen_vars, source, calls, program, HAD_ERRORS, MSGS>>

\* Check.run has returned: the report of check()
CheckReport ==
    /\ pc = "check"
    /\ stack = <<>>
    /\ pc' = IF errors_detected THEN "semantic_errors" ELSE "semantic_ok"
    /\ runs' = [runs EXCEPT !.done = Append(@, SubSeq(MSGS, runs.start + 1, Len(MSGS)))]
    /\ UNCHANGED <<gen_vars, source, calls, program, chk_vars>>

(***************************************************************************)
(* Check.visit, one action per node class.                                 *)
(***************************************************************************)
VisitProgram ==
    /\ Visiting({"Program"})
    /\ stack' = [i \in 1..Len(Top.n.body) |-> Visit(Top.n.body[i], Top.env, FALSE)]
                \o Rest
    /\ UNCHANGED <<gen_vars, source, runs, calls, program, pc, HAD_ERRORS, MSGS, fun_ret_stack, fun_name_stack,
                   saw_return_stack, loop_depth, inits, lhs_mode, symtabs, vals>>

VisitBlock ==
    /\ Visiting({"Block"})
    /\ \E id \in NewIds(symtabs, inits) :
          symtabs' = NewScope(symtabs, id, "block", Top.env)
    /\ LET local == Len(symtabs) + 1
       IN stack' = [i \in 1..Len(Top.n.stmts) |-> Visit(Top.n.stmts[i], local, FALSE)]
                   \o <<Frame("leave", Top.n, local, FALSE, 0)>> \o Rest
    /\ UNCHANGED <<gen_vars, source, runs, calls, program, pc, HAD_ERRORS, MSGS, fun_ret_stack, fun_name_stack,
                   saw_return_stack, loop_depth, inits, lhs_mode, vals>>

\* The visit that opened a scope returns: its Symtab object is dropped.
LeaveScope ==
    /\ At("leave")
    /\ symtabs' = DropScope(symtabs)
    /\ stack' = Rest
    /\ UNCHANGED <<gen_vars, source, runs, calls, program, pc, HAD_ERRORS, MSGS, fun_ret_stack, fun_name_stack,
                   saw_return_stack, loop_depth, inits, lhs_mode, vals>>

VisitLiteral ==
    /\ Visiting(LiteralKinds)
    /\ vals' = Ret(Top.keep, Top.n.type)
    /\ stack' = Rest
    /\ UNCHANGED <<gen_vars, source, runs, calls, program, pc, HAD_ERRORS, MSGS, fun_ret_stack, fun_name_stack,
                   saw_return_stack, loop_depth, inits, lhs_mode, symtabs>>

\* visit(Identifier): the type written on the node
IdentifierType(tabs, env, n) ==
    LET decl == SymGet(tabs, env, n.name)
    IN IF decl.k = "None" THEN NoType ELSE resolve_type(decl.type)

\* a visit that resolves every name
IdentifierErrorsAllDeclared(tabs, ini, lhs, env, n) ==
    IF ~lhs /\ is_initialized(tabs, ini, env, n.name) = "False"
    THEN <<error(E_UBA \o n.name, n.lineno)>>
    ELSE <<>>

\* visit(Identifier): the diagnostics of one visit
IdentifierErrors(tabs, ini, lhs, env, n) ==
    LET decl == SymGet(tabs, env, n.name)
    IN IF decl.k = "None" THEN <<error(E_UNDECLARED \o n.name, n.lineno)>>
       ELSE IF ~lhs /\ is_initialized(tabs, ini, env, n.name) = "False"
       THEN <<error(E_UBA \o n.name, n.lineno)>>
       ELSE <<>>

VisitIdentifier ==
    /\ Visiting({"Identifier"})
    /\ Report(IdentifierErrors(symtabs, inits, lhs_mode, Top.env, Top.n))
    /\ vals' = Ret(Top.keep, IdentifierType(symtabs, Top.env, Top.n))
    /\ stack' = Rest
    /\ UNCHANGED <<gen_vars, source, runs, calls, program, pc, fun_ret_stack, fun_name_stack, saw_return_stack,
                   loop_depth, inits, lhs_mode, symtabs>>

\* a fallback that accepts break and continue at depth zero
FallbackErrorsNegativeOnly(depth, n) ==
    IF n.k = "BreakStmt" /\ depth < 0 THEN <<error(E_BREAK, n.lineno)>>
    ELSE IF n.k = "ContinueStmt" /\ depth < 0 THEN <<error(E_CONTINUE, n.lineno)>>
    ELSE <<>>

\* visit(Node), the fallback: break and continue by class name
FallbackErrors(depth, n) ==
    IF n.k = "BreakStmt" /\ depth <= 0 THEN <<error(E_BREAK, n.lineno)>>
    ELSE IF n.k = "ContinueStmt" /\ depth <= 0 THEN <<error(E_CONTINUE, n.lineno)>>
    ELSE <<>>

VisitFallback ==
    /\ Visiting({"BreakStmt", "ContinueStmt"})
    /\ Report(FallbackErrors(loop_depth, Top.n))
    /\ vals' = Ret(Top.keep, NoType)
    /\ stack' = Rest
    /\ UNCHANGED <<gen_vars, source, runs, calls, program, pc, fun_ret_stack, fun_name_stack, saw_return_stack,
                   loop_depth, inits, lhs_mode, symtabs>>

(***************************************************************************)
(* visit(VarDecl), function declarations (checker.py lines 144-207).       *)
(***************************************************************************)
E_PARAM_TYPE == "Tipo invalido para parametro "
E_PARAM_SIZE == "Parametro arreglo no debe tener tamano explicito: "
E_PARAM_DUP == "Parametro duplicado "
E_VAR_TYPE == "Tipo invalido para variable "
E_ARR_SIZE == "Tamano de array invalido para "
E_ARR_NEG == "Tamano de array negativo en "
E_ARR_ELEM == "Elemento de array incompatible en "
E_ARR_COUNT == "Tamano de inicializacion incompatible para "
E_INIT == "Incompatibilidad en inicializacion de "
E_RET_VOID == "Return con valor en funcion void"
E_RET_TYPE == "Tipo de return invalido: se esperaba "
E_IF == "La condicion del if debe ser boolean"
E_WHILE == "La condicion del while debe ser boolean"
E_DO == "La condicion del do-while debe ser boolean"
E_FOR == "La condicion del for debe ser boolean"
E_ASSIGN == "Tipos incompatibles en asignacion"
E_BINOP == "Operacion invalida: "

\* the special rule for main
MainErrors(n) ==
    LET ret == IF n.type.ret.k = "None" THEN "void" ELSE resolve_type(n.type.ret)
    IN IF n.name = "main" /\ ret # "void" THEN <<error(E_MAIN_RET, n.lineno)>> ELSE <<>>

BodyErrors(n) ==
    IF n.init.k # "Block" THEN <<error(E_NO_BODY \o n.name, n.lineno)>> ELSE <<>>

\* an env.add whose exception is swallowed without a diagnostic
AddErrorsSilent(tabs, env, name, lineno) == <<>>

\* env.add(name, decl) inside try/except: the diagnostic of a duplicate
AddErrors(tabs, env, name, lineno) ==
    IF SymAddRaises(tabs, env, name) THEN <<error(E_DUP \o name, lineno)>> ELSE <<>>

\* the loop over the parameters; st = [tabs, ini, errs, seen]
RECURSIVE ParamsLoop(_, _, _)
ParamsLoop(params, fenv, st) ==
    IF params = <<>> THEN st
    ELSE LET p == Head(params)
             ptype_name == resolve_type(p.type)
             e1 == IF ~is_type(ptype_name, p.type)
                   THEN <<error(E_PARAM_TYPE \o p.name, p.lineno)>> ELSE <<>>
             e2 == IF p.type.k = "ArrayType" /\ p.type.size.k # "None"
                   THEN <<error(E_PARAM_SIZE \o p.name, p.lineno)>> ELSE <<>>
             e3 == IF p.name \in st.seen
                   THEN <<error(E_PARAM_DUP \o p.name, p.lineno)>> ELSE <<>>
             raises == SymAddRaises(st.tabs, fenv, p.name)
             e4 == AddErrors(st.tabs, fenv, p.name, p.lineno)
             tabs2 == SymAdd(st.tabs, fenv, p.name, Decl(p))
             ini2 == IF raises THEN st.ini
                     ELSE set_initialized(tabs2, st.ini, fenv, p.name, TRUE)
         IN ParamsLoop(Tail(params), fenv,
                       [tabs |-> tabs2, ini |-> ini2,
                        errs |-> st.errs \o e1 \o e2 \o e3 \o e4,
                        seen |-> st.seen \cup {p.name}])

VisitFuncDecl ==
    /\ Visiting({"VarDecl"})
    /\ Top.n.type.k = "FuncType"
    /\ \E id \in NewIds(symtabs, inits) :
          LET n == Top.n
              env == Top.env
              tabs1 == SymAdd(symtabs, env, n.name, Decl(n))
              fenv == Len(symtabs) + 1
              tabs2 == NewScope(tabs1, id, n.name, env)
              st == ParamsLoop(n.type.params, fenv,
                               [tabs |-> tabs2, ini |-> inits, errs |-> <<>>,
                                seen |-> {}])
              expected_ret == IF n.type.ret.k = "None" THEN "void"
                              ELSE resolve_type(n.type.ret)
          IN /\ Report(MainErrors(n) \o BodyErrors(n)
                       \o AddErrors(symtabs, env, n.name, n.lineno) \o st.errs)
             /\ symtabs' = st.tabs
             /\ inits' = st.ini
             /\ fun_ret_stack' = Append(fun_ret_stack, expected_ret)
             /\ fun_name_stack' = Append(fun_name_stack, n.name)
             /\ saw_return_stack' = Append(saw_return_stack, FALSE)
             /\ stack' = (IF n.init.k = "Block" THEN <<Visit(n.init, fenv, FALSE)>>
                          ELSE <<>>)
                         \o <<Frame("func_exit", n, fenv, FALSE, 0)>> \o Rest
    /\ UNCHANGED <<gen_vars, source, runs, calls, program, pc, loop_depth, lhs_mode, vals>>

Last(s) == s[Len(s)]

Pop(s) == SubSeq(s, 1, Len(s) - 1)

\* after the body: "no-void y no hubo return"
MissingReturnErrors(exp, saw_return, n) ==
    IF exp # "void" /\ ~saw_return
    THEN <<error(E_NO_RETURN \o n.name, n.lineno)>> ELSE <<>>

\* FuncDeclExit without the pop of the function-name stack
FuncDeclExitKeepsName ==
    /\ At("func_exit")
    /\ Report(MissingReturnErrors(Last(fun_ret_stack), Last(saw_return_stack), Top.n))
    /\ saw_return_stack' = Pop(saw_return_stack)
    /\ fun_ret_stack' = Pop(fun_ret_stack)
    /\ symtabs' = DropScope(symtabs)
    /\ stack' = Rest
    /\ UNCHANGED <<gen_vars, source, runs, calls, program, pc, loop_depth, inits,
                   lhs_mode, vals, fun_name_stack>>

FuncDeclExit ==
    /\ At("func_exit")
    /\ Report(MissingReturnErrors(Last(fun_ret_stack), Last(saw_return_stack), Top.n))
    /\ saw_return_stack' = Pop(saw_return_stack)
    /\ fun_name_stack' = Pop(fun_name_stack)
    /\ fun_ret_stack' = Pop(fun_ret_stack)
    /\ symtabs' = DropScope(symtabs)
    /\ stack' = Rest
    /\ UNCHANGED <<gen_vars, source, runs, calls, program, pc, loop_depth, inits, lhs_mode, vals>>

(***************************************************************************)
(* visit(VarDecl), variables and arrays (checker.py lines 209-263).        *)
(***************************************************************************)
IsLiteralInt(n) == n.k = "Integer"

VarTypeErrors(n) ==
    LET tname == resolve_type(n.type)
        e1 == IF ~is_type(tname, n.type)
              THEN <<error(E_VAR_TYPE \o n.name, n.lineno)>> ELSE <<>>
        e2 == IF n.type.k = "ArrayType" /\ n.type.size.k # "None"
              THEN (IF ~IsLiteralInt(n.type.size)
                    THEN <<error(E_ARR_SIZE \o n.name, n.lineno)>>
                    ELSE IF n.type.size.value < 0
                    THEN <<error(E_ARR_NEG \o n.name, n.lineno)>>
                    ELSE <<>>)
              ELSE <<>>
    IN e1 \o e2

IsArrayInit(n) ==
    /\ n.type.k = "ArrayType"
    /\ n.init.k = "Call"
    /\ n.init.func.k = "Identifier"
    /\ n.init.func.name = "array_init"

\* a declaration without initializer that leaves the state as it was
DeclaredUntracked(tabs, ini, env, name) == ini

\* the initialization state written by a declaration without initializer
DeclaredUninitialized(tabs, ini, env, name) ==
    set_initialized(tabs, ini, env, name, FALSE)

VisitVarDecl ==
    /\ Visiting({"VarDecl"})
    /\ Top.n.type.k # "FuncType"
    /\ LET n == Top.n
           env == Top.env
           tabs1 == SymAdd(symtabs, env, n.name, Decl(n))
       IN /\ Report(VarTypeErrors(n) \o AddErrors(symtabs, env, n.name, n.lineno))
          /\ symtabs' = tabs1
          /\ IF n.init.k # "None"
             THEN /\ inits' = inits
                  /\ IF IsArrayInit(n)
                     THEN stack' =
                            [j \in 1..(2 * Len(n.init.args)) |->
                               IF j % 2 = 1
                               THEN Visit(n.init.args[(j + 1) \div 2], env, TRUE)
                               ELSE Frame("array_init_elem", n, env, FALSE, j \div 2)]
                            \o <<Frame("array_init_done", n, env, FALSE,
                                       Len(n.init.args))>>
                            \o Rest
                     ELSE stack' = <<Visit(n.init, env, TRUE),
                                     Frame("vardecl_init", n, env, FALSE, 0)>> \o Rest
             ELSE /\ inits' = DeclaredUninitialized(tabs1, inits, env, n.name)
                  /\ stack' = Rest
    /\ UNCHANGED <<gen_vars, source, runs, calls, program, pc, fun_ret_stack, fun_name_stack, saw_return_stack,
                   loop_depth, lhs_mode, vals>>

ArrayElemErrors(at, n) ==
    LET base_expected == resolve_type(n.type.base)
    IN IF at # NoType /\ base_expected # NoType /\ at # base_expected
       THEN <<error(E_ARR_ELEM \o n.name, n.lineno)>> ELSE <<>>

ArrayInitElem ==
    /\ At("array_init_elem")
    /\ Report(ArrayElemErrors(Head(vals), Top.n))
    /\ vals' = Tail(vals)
    /\ stack' = Rest
    /\ UNCHANGED <<gen_vars, source, runs, calls, program, pc, fun_ret_stack, fun_name_stack, saw_return_stack,
                   loop_depth, inits, lhs_mode, symtabs>>

\* a count test that accepts an initializer shorter than the array
ArrayCountErrorsExcessOnly(count, n) ==
    IF IsLiteralInt(n.type.size) /\ count > n.type.size.value
    THEN <<error(E_ARR_COUNT \o n.name, n.lineno)>> ELSE <<>>

ArrayCountErrors(count, n) ==
    IF IsLiteralInt(n.type.size) /\ count # n.type.size.value
    THEN <<error(E_ARR_COUNT \o n.name, n.lineno)>> ELSE <<>>

ArrayInitDone ==
    /\ At("array_init_done")
    /\ Report(ArrayCountErrors(Top.i, Top.n))
    /\ inits' = set_initialized(symtabs, inits, Top.env, Top.n.name, TRUE)
    /\ stack' = Rest
    /\ UNCHANGED <<gen_vars, source, runs, calls, program, pc, fun_ret_stack, fun_name_stack, saw_return_stack,
                   loop_depth, lhs_mode, symtabs, vals>>

InitTypeErrors(init_t, n) ==
    LET tname == resolve_type(n.type)
    IN IF init_t # NoType /\ tname # NoType /\ ~types_equal(init_t, tname)
       THEN <<error(E_INIT \o n.name, n.lineno)>> ELSE <<>>

VarDeclInit ==
    /\ At("vardecl_init")
    /\ Report(InitTypeErrors(Head(vals), Top.n))
    /\ inits' = set_initialized(symtabs, inits, Top.env, Top.n.name, TRUE)
    /\ vals' = Tail(vals)
    /\ stack' = Rest
    /\ UNCHANGED <<gen_vars, source, runs, calls, program, pc, fun_ret_stack, fun_name_stack, saw_return_stack,
                   loop_depth, lhs_mode, symtabs>>

(***************************************************************************)
(* Statements (checker.py lines 266-340).                                  *)
(***************************************************************************)
VisitPrintStmt ==
    /\ Visiting({"PrintStmt"})
    /\ stack' = [j \in 1..Len(Top.n.args) |->
                    Frame("print_arg", Top.n.args[j], Top.env, FALSE, j)] \o Rest
    /\ UNCHANGED <<gen_vars, source, runs, calls, program, pc, HAD_ERRORS, MSGS, fun_ret_stack, fun_name_stack,
                   saw_return_stack, loop_depth, inits, lhs_mode, symtabs, vals>>

\* the test visit(PrintStmt) makes on an argument before it visits it
PrintArgErrors(tabs, ini, env, a) ==
    IF a.k = "Identifier" /\ is_initialized(tabs, ini, env, a.name) = "False"
    THEN <<error(E_UBA \o a.name, a.lineno)>> ELSE <<>>

PrintArg ==
    /\ At("print_arg")
    /\ Report(PrintArgErrors(symtabs, inits, Top.env, Top.n))
    /\ stack' = <<Visit(Top.n, Top.env, FALSE)>> \o Rest
    /\ UNCHANGED <<gen_vars, source, runs, calls, program, pc, fun_ret_stack, fun_name_stack, saw_return_stack,
                   loop_depth, inits, lhs_mode, symtabs, vals>>

VisitReturnStmt ==
    /\ Visiting({"ReturnStmt"})
    /\ stack' = (IF Top.n.expr.k # "None" THEN <<Visit(Top.n.expr, Top.env, TRUE)>>
                 ELSE <<>>)
                \o <<Frame("return_check", Top.n, Top.env, FALSE,
                           IF Top.n.expr.k # "None" THEN 1 ELSE 0)>>
                \o Rest
    /\ UNCHANGED <<gen_vars, source, runs, calls, program, pc, HAD_ERRORS, MSGS, fun_ret_stack, fun_name_stack,
                   saw_return_stack, loop_depth, inits, lhs_mode, symtabs, vals>>

ReturnErrors(expected, value_type, n) ==
    IF expected = NoType THEN <<>>
    ELSE IF expected = "void"
    THEN (IF value_type # NoType THEN <<error(E_RET_VOID, n.lineno)>> ELSE <<>>)
    ELSE (IF value_type # expected
          THEN <<error(E_RET_TYPE \o expected, n.lineno)>> ELSE <<>>)

\* "marcar que vimos un return con valor": the flag stack after a return
SawReturn(saw, expected) ==
    IF expected # NoType /\ expected # "void"
    THEN [saw EXCEPT ![Len(saw)] = TRUE]
    ELSE saw

ReturnCheck ==
    /\ At("return_check")
    /\ LET value_type == IF Top.i = 1 THEN Head(vals) ELSE NoType
           expected == IF fun_ret_stack # <<>> THEN Last(fun_ret_stack) ELSE NoType
       IN /\ Report(ReturnErrors(expected, value_type, Top.n))
          /\ saw_return_stack' = SawReturn(saw_return_stack, expected)
    /\ vals' = IF Top.i = 1 THEN Tail(vals) ELSE vals
    /\ stack' = Rest
    /\ UNCHANGED <<gen_vars, source, runs, calls, program, pc, fun_ret_stack, fun_name_stack, loop_depth, inits,
                   lhs_mode, symtabs>>

\* the test of a condition's type, for if, while, do-while and for
CondErrors(ct, msg, n) ==
    IF ct # "boolean" THEN <<error(msg, n.lineno)>> ELSE <<>>

VisitIfStmt ==
    /\ Visiting({"IfStmt"})
    /\ stack' = (IF Top.n.cond.k # "None" THEN <<Visit(Top.n.cond, Top.env, TRUE)>>
                 ELSE <<>>)
                \o <<Frame("if_then", Top.n, Top.env, FALSE,
                           IF Top.n.cond.k # "None" THEN 1 ELSE 0)>>
                \o Rest
    /\ UNCHANGED <<gen_vars, source, runs, calls, program, pc, HAD_ERRORS, MSGS, fun_ret_stack, fun_name_stack,
                   saw_return_stack, loop_depth, inits, lhs_mode, symtabs, vals>>

\* after the condition: its test, then the then-branch in a scope of its own
IfThen ==
    /\ At("if_then")
    /\ Report(IF Top.i = 1 THEN CondErrors(Head(vals), E_IF, Top.n) ELSE <<>>)
    /\ vals' = IF Top.i = 1 THEN Tail(vals) ELSE vals
    /\ IF Top.n.then.k # "None"
       THEN \E id \in NewIds(symtabs, inits) :
              /\ symtabs' = NewScope(symtabs, id, "then", Top.env)
              /\ stack' = <<Visit(Top.n.then, Len(symtabs) + 1, FALSE),
                            Frame("leave", Top.n, Len(symtabs) + 1, FALSE, 0),
                            Frame("if_else", Top.n, Top.env, FALSE, 0)>> \o Rest
       ELSE /\ symtabs' = symtabs
            /\ stack' = <<Frame("if_else", Top.n, Top.env, FALSE, 0)>> \o Rest
    /\ UNCHANGED <<gen_vars, source, runs, calls, program, pc, fun_ret_stack, fun_name_stack, saw_return_stack,
                   loop_depth, inits, lhs_mode>>

IfElse ==
    /\ At("if_else")
    /\ IF Top.n.otherwise.k # "None"
       THEN \E id \in NewIds(symtabs, inits) :
              /\ symtabs' = NewScope(symtabs, id, "else", Top.env)
              /\ stack' = <<Visit(Top.n.otherwise, Len(symtabs) + 1, FALSE),
                            Frame("leave", Top.n, Len(symtabs) + 1, FALSE, 0)>>
                          \o Rest
       ELSE /\ symtabs' = symtabs
            /\ stack' = Rest
    /\ UNCHANGED <<gen_vars, source, runs, calls, program, pc, HAD_ERRORS, MSGS, fun_ret_stack, fun_name_stack,
                   saw_return_stack, loop_depth, inits, lhs_mode, vals>>

VisitWhileStmt ==
    /\ Visiting({"WhileStmt"})
    /\ stack' = (IF Top.n.cond.k # "None" THEN <<Visit(Top.n.cond, Top.env, TRUE)>>
                 ELSE <<>>)
                \o <<Frame("while_body", Top.n, Top.env, FALSE,
                           IF Top.n.cond.k # "None" THEN 1 ELSE 0)>>
                \o Rest
    /\ UNCHANGED <<gen_vars, source, runs, calls, program, pc, HAD_ERRORS, MSGS, fun_ret_stack, fun_name_stack,
                   saw_return_stack, loop_depth, inits, lhs_mode, symtabs, vals>>

\* after the condition: its test, _loop_depth += 1, the body in its scope
WhileBody ==
    /\ At("while_body")
    /\ Report(IF Top.i = 1 THEN CondErrors(Head(vals), E_WHILE, Top.n) ELSE <<>>)
    /\ vals' = IF Top.i = 1 THEN Tail(vals) ELSE vals
    /\ loop_depth' = loop_depth + 1
    /\ IF Top.n.body.k # "None"
       THEN \E id \in NewIds(symtabs, inits) :
              /\ symtabs' = NewScope(symtabs, id, "while", Top.env)
              /\ stack' = <<Visit(Top.n.body, Len(symtabs) + 1, FALSE),
                            Frame("leave", Top.n, Len(symtabs) + 1, FALSE, 0),
                            Frame("loop_exit", Top.n, Top.env, FALSE, 0)>> \o Rest
       ELSE /\ symtabs' = symtabs
            /\ stack' = <<Frame("loop_exit", Top.n, Top.env, FALSE, 0)>> \o Rest
    /\ UNCHANGED <<gen_vars, source, runs, calls, program, pc, fun_ret_stack, fun_name_stack, saw_return_stack,
                   inits, lhs_mode>>

\* _loop_depth -= 1 after the body of a while
LoopExit ==
    /\ At("loop_exit")
    /\ loop_depth' = loop_depth - 1
    /\ stack' = Rest
    /\ UNCHANGED <<gen_vars, source, runs, calls, program, pc, HAD_ERRORS, MSGS, fun_ret_stack, fun_name_stack,
                   saw_return_stack, inits, lhs_mode, symtabs, vals>>

VisitDoWhileStmt ==
    /\ Visiting({"DoWhileStmt"})
    /\ loop_depth' = loop_depth + 1
    /\ IF Top.n.body.k # "None"
       THEN \E id \in NewIds(symtabs, inits) :
              /\ symtabs' = NewScope(symtabs, id, "do", Top.env)
              /\ stack' = <<Visit(Top.n.body, Len(symtabs) + 1, FALSE),
                            Frame("leave", Top.n, Len(symtabs) + 1, FALSE, 0),
                            Frame("do_after_body", Top.n, Top.env, FALSE, 0)>>
                          \o Rest
       ELSE /\ symtabs' = symtabs
            /\ stack' = <<Frame("do_after_body", Top.n, Top.env, FALSE, 0)>> \o Rest
    /\ UNCHANGED <<gen_vars, source, runs, calls, program, pc, HAD_ERRORS, MSGS, fun_ret_stack, fun_name_stack,
                   saw_return_stack, inits, lhs_mode, vals>>

\* _loop_depth -= 1, then the condition of the do-while
DoAfterBody ==
    /\ At("do_after_body")
    /\ loop_depth' = loop_depth - 1
    /\ stack' = (IF Top.n.cond.k # "None"
                 THEN <<Visit(Top.n.cond, Top.env, TRUE),
                        Frame("do_cond", Top.n, Top.env, FALSE, 0)>>
                 ELSE <<>>) \o Rest
    /\ UNCHANGED <<gen_vars, source, runs, calls, program, pc, HAD_ERRORS, MSGS, fun_ret_stack, fun_name_stack,
                   saw_return_stack, inits, lhs_mode, symtabs, vals>>

DoCond ==
    /\ At("do_cond")
    /\ Report(CondErrors(Head(vals), E_DO, Top.n))
    /\ vals' = Tail(vals)
    /\ stack' = Rest
    /\ UNCHANGED <<gen_vars, source, runs, calls, program, pc, fun_ret_stack, fun_name_stack, saw_return_stack,
                   loop_depth, inits, lhs_mode, symtabs>>

Opt(n, frames) == IF n.k # "None" THEN frames ELSE <<>>

\* the scope of the header, _loop_depth += 1, then init, cond, step and body
VisitForStmt ==
    /\ Visiting({"ForStmt"})
    /\ loop_depth' = loop_depth + 1
    /\ \E id \in NewIds(symtabs, inits) :
          symtabs' = NewScope(symtabs, id, "for", Top.env)
    /\ LET n == Top.n
           local == Len(symtabs) + 1
       IN stack' = Opt(n.init, <<Visit(n.init, local, FALSE)>>)
                   \o Opt(n.cond, <<Visit(n.cond, local, TRUE),
                                    Frame("for_cond", n, local, FALSE, 0)>>)
                   \o Opt(n.step, <<Visit(n.step, local, FALSE)>>)
                   \o Opt(n.body, <<Visit(n.body, local, FALSE)>>)
                   \o <<Frame("for_exit", n, local, FALSE, 0)>> \o Rest
    /\ UNCHANGED <<gen_vars, source, runs, calls, program, pc, HAD_ERRORS, MSGS, fun_ret_stack, fun_name_stack,
                   saw_return_stack, inits, lhs_mode, vals>>

ForCond ==
    /\ At("for_cond")
    /\ Report(CondErrors(Head(vals), E_FOR, Top.n))
    /\ vals' = Tail(vals)
    /\ stack' = Rest
    /\ UNCHANGED <<gen_vars, source, runs, calls, program, pc, fun_ret_stack, fun_name_stack, saw_return_stack,
                   loop_depth, inits, lhs_mode, symtabs>>

\* _loop_depth -= 1 and the return of visit(ForStmt)
ForExit ==
    /\ At("for_exit")
    /\ loop_depth' = loop_depth - 1
    /\ symtabs' = DropScope(symtabs)
    /\ stack' = Rest
    /\ UNCHANGED <<gen_vars, source, runs, calls, program, pc, HAD_ERRORS, MSGS, fun_ret_stack, fun_name_stack,
                   saw_return_stack, inits, lhs_mode, vals>>

(***************************************************************************)
(* Expressions (checker.py lines 364-464).                                 *)
(***************************************************************************)
\* _lhs_mode = True, then the target
VisitAssign ==
    /\ Visiting({"Assign"})
    /\ lhs_mode' = TRUE
    /\ stack' = <<Visit(Top.n.target, Top.env, TRUE),
                  Frame("assign_value", Top.n, Top.env, Top.keep, 0)>> \o Rest
    /\ UNCHANGED <<gen_vars, source, runs, calls, program, pc, HAD_ERRORS, MSGS, fun_ret_stack, fun_name_stack,
                   saw_return_stack, loop_depth, inits, symtabs, vals>>

\* _lhs_mode = False, then the value
AssignValue ==
    /\ At("assign_value")
    /\ lhs_mode' = FALSE
    /\ stack' = <<Visit(Top.n.value, Top.env, TRUE),
                  Frame("assign_done", Top.n, Top.env, Top.keep, 0)>> \o Rest
    /\ UNCHANGED <<gen_vars, source, runs, calls, program, pc, HAD_ERRORS, MSGS, fun_ret_stack, fun_name_stack,
                   saw_return_stack, loop_depth, inits, symtabs, vals>>

AssignErrors(lhs_t, rhs_t, n) ==
    IF lhs_t # NoType /\ rhs_t # NoType /\ ~types_equal(lhs_t, rhs_t)
    THEN <<error(E_ASSIGN, n.lineno)>> ELSE <<>>

\* "si el target es un identificador simple, queda inicializado"
AssignInits(tabs, ini, env, n) ==
    IF n.target.k = "Identifier"
    THEN set_initialized(tabs, ini, env, n.target.name, TRUE)
    ELSE ini

AssignDone ==
    /\ At("assign_done")
    /\ LET rhs_t == vals[1]
           lhs_t == vals[2]
       IN /\ Report(AssignErrors(lhs_t, rhs_t, Top.n))
          /\ vals' = IF Top.keep
                     THEN <<IF lhs_t # NoType THEN lhs_t ELSE rhs_t>>
                          \o Tail(Tail(vals))
                     ELSE Tail(Tail(vals))
    /\ inits' = AssignInits(symtabs, inits, Top.env, Top.n)
    /\ stack' = Rest
    /\ UNCHANGED <<gen_vars, source, runs, calls, program, pc, fun_ret_stack, fun_name_stack, saw_return_stack,
                   loop_depth, lhs_mode, symtabs>>

VisitBinOper ==
    /\ Visiting({"BinOper"})
    /\ stack' = <<Visit(Top.n.left, Top.env, TRUE), Visit(Top.n.right, Top.env, TRUE),
                  Frame("binop_done", Top.n, Top.env, Top.keep, 0)>> \o Rest
    /\ UNCHANGED <<gen_vars, source, runs, calls, program, pc, HAD_ERRORS, MSGS, fun_ret_stack, fun_name_stack,
                   saw_return_stack, loop_depth, inits, lhs_mode, symtabs, vals>>

BinOperErrors(lt, rt, n) ==
    IF check_binop(n.oper, lt, rt) = NoType
    THEN <<error(E_BINOP \o n.oper, n.lineno)>> ELSE <<>>

BinOperDone ==
    /\ At("binop_done")
    /\ LET rt == vals[1]
           lt == vals[2]
       IN /\ Report(BinOperErrors(lt, rt, Top.n))
          /\ vals' = IF Top.keep
                     THEN <<check_binop(Top.n.oper, lt, rt)>> \o Tail(Tail(vals))
                     ELSE Tail(Tail(vals))
    /\ stack' = Rest
    /\ UNCHANGED <<gen_vars, source, runs, calls, program, pc, fun_ret_stack, fun_name_stack, saw_return_stack,
                   loop_depth, inits, lhs_mode, symtabs>>

(***************************************************************************)
(* visit(ArrayIndex) (checker.py lines 423-434).                           *)
(***************************************************************************)
E_INDEX == "El indice de arreglo debe ser 'integer'"
E_NOT_ARRAY == "Intento de indexar un valor no-arreglo"

VisitArrayIndex ==
    /\ Visiting({"ArrayIndex"})
    /\ stack' = <<Visit(Top.n.array, Top.env, TRUE), Visit(Top.n.index, Top.env, TRUE),
                  Frame("index_done", Top.n, Top.env, Top.keep, 0)>> \o Rest
    /\ UNCHANGED <<gen_vars, source, runs, calls, program, pc, HAD_ERRORS, MSGS,
                   fun_ret_stack, fun_name_stack, saw_return_stack, loop_depth,
                   inits, lhs_mode, symtabs, vals>>

ArrayIndexErrors(at, it, n) ==
    (IF it # "integer" THEN <<error(E_INDEX, n.lineno)>> ELSE <<>>)
    \o (IF array_base_from_name(at) = NoType /\ at # NoType
        THEN <<error(E_NOT_ARRAY, n.lineno)>> ELSE <<>>)

ArrayIndexDone ==
    /\ At("index_done")
    /\ Report(ArrayIndexErrors(vals[2], vals[1], Top.n))
    /\ vals' = IF Top.keep
               THEN <<array_base_from_name(vals[2])>> \o Tail(Tail(vals))
               ELSE Tail(Tail(vals))
    /\ stack' = Rest
    /\ UNCHANGED <<gen_vars, source, runs, calls, program, pc, fun_ret_stack,
                   fun_name_stack, saw_return_stack, loop_depth, inits, lhs_mode,
                   symtabs>>

\* the callee a call resolves to, or NoDecl ("fn_decl is None or not a function")
Callee(tabs, env, n) ==
    LET d == IF n.func.k = "Identifier" THEN SymGet(tabs, env, n.func.name) ELSE NoDecl
    IN IF d.k = "VarDecl" /\ d.type.k = "FuncType" THEN d ELSE NoDecl

Min(a, b) == IF a < b THEN a ELSE b

\* the arguments of a call that visit(Call) visits, in order
CallVisited(tabs, env, n) ==
    LET fn_decl == Callee(tabs, env, n)
    IN IF n.func.k = "Identifier" /\ n.func.name = "array_init" THEN Len(n.args)
       ELSE IF fn_decl.k = "None" THEN Len(n.args)
       ELSE Min(Len(n.args), Len(fn_decl.type.params))

\* the diagnostics visit(Call) records before it visits any argument
CallErrors(tabs, env, n) ==
    LET fn_decl == Callee(tabs, env, n)
    IN IF n.func.k = "Identifier" /\ n.func.name = "array_init" THEN <<>>
       ELSE IF fn_decl.k = "None"
       THEN <<error(E_FN_UNDECLARED \o n.func.name, n.lineno)>>
       ELSE IF Len(n.args) # Len(fn_decl.type.params)
       THEN <<error(E_ARITY \o fn_decl.name, n.lineno)>>
       ELSE <<>>

VisitCall ==
    /\ Visiting({"Call"})
    /\ LET n == Top.n
           env == Top.env
           fn_decl == Callee(symtabs, env, n)
           checked == ~(n.func.k = "Identifier" /\ n.func.name = "array_init")
                      /\ fn_decl.k # "None"
           ctx == [k |-> "CallCtx", call |-> n, decl |-> fn_decl]
           cnt == CallVisited(symtabs, env, n)
       IN /\ Report(CallErrors(symtabs, env, n))
          /\ stack' =
               (IF checked
                THEN [j \in 1..(2 * cnt) |->
                        IF j % 2 = 1 THEN Visit(n.args[(j + 1) \div 2], env, TRUE)
                        ELSE Frame("call_arg", ctx, env, FALSE, j \div 2)]
                ELSE [j \in 1..cnt |-> Visit(n.args[j], env, FALSE)])
               \o <<Frame("call_done", ctx, env, Top.keep, IF checked THEN 1 ELSE 0)>>
               \o Rest
    /\ UNCHANGED <<gen_vars, source, runs, calls, program, pc, fun_ret_stack, fun_name_stack, saw_return_stack,
                   loop_depth, inits, lhs_mode, symtabs, vals>>

CallArgErrors(at, ctx, i) ==
    LET pt == resolve_type(ctx.decl.type.params[i].type)
    IN IF at # NoType /\ pt # NoType /\ at # pt
       THEN <<error(E_ARG \o ctx.decl.name, ctx.call.lineno)>> ELSE <<>>

CallArg ==
    /\ At("call_arg")
    /\ Report(CallArgErrors(Head(vals), Top.n, Top.i))
    /\ vals' = Tail(vals)
    /\ stack' = Rest
    /\ UNCHANGED <<gen_vars, source, runs, calls, program, pc, fun_ret_stack, fun_name_stack, saw_return_stack,
                   loop_depth, inits, lhs_mode, symtabs>>

\* n.type of a call: the declared return type, None for an unknown callee
CallType(ctx, checked) ==
    IF checked = 1
    THEN (IF ctx.decl.type.ret.k = "None" THEN "void"
          ELSE resolve_type(ctx.decl.type.ret))
    ELSE NoType

CallDone ==
    /\ At("call_done")
    /\ vals' = Ret(Top.keep, CallType(Top.n, Top.i))
    /\ stack' = Rest
    /\ UNCHANGED <<gen_vars, source, runs, calls, program, pc, HAD_ERRORS, MSGS, fun_ret_stack, fun_name_stack,
                   saw_return_stack, loop_depth, inits, lhs_mode, symtabs>>

(***************************************************************************)
(* IREmitter and the lowering of types (bminor2llvm.py).  A line of the    *)
(* module text is a record: its opcode, the name it defines ("" if none)   *)
(* and the texts of its operands.                                          *)
(***************************************************************************)
Line(op, def, args) == [op |-> op, def |-> def, args |-> args]

IREmitter == [lines |-> <<>>, tmp_counter |-> 0, blk_counter |-> 0]

\* a call that changes the generator and returns a value
Result(c, v) == [c |-> c, v |-> v]

\* IREmitter.tmp
tmp(c) ==
    Result([c EXCEPT !.ir.tmp_counter = @ + 1],
           "%t" \o ToString(c.ir.tmp_counter + 1))

\* IREmitter.label
label(c, base) ==
    Result([c EXCEPT !.ir.blk_counter = @ + 1],
           base \o ToString(c.ir.blk_counter + 1))

\* IREmitter.emit
emit(c, line) == [c EXCEPT !.ir.lines = Append(@, line)]

\* IREmitter.header
header(c) ==
    [c EXCEPT !.ir.lines = @ \o
        <<Line("declare", "@printf", <<"i32", "i8*", "...">>),
          Line("declare", "@malloc", <<"i8*", "i32">>),
          Line("blank", "", <<>>),
          Line("constant", "@.fmt_int", <<"%d">>),
          Line("constant", "@.fmt_float", <<"%f">>),
          Line("constant", "@.fmt_char", <<"%c">>),
          Line("constant", "@.fmt_str", <<"%s">>),
          Line("blank", "", <<>>)>>]

\* IREmitter.emit, twice
emit2(c, first, second) == emit(emit(c, first), second)

\* IREmitter.gep_cstr, once the register p.v is taken
gep_at(p, name) ==
    Result(emit(p.c, Line("getelementptr", p.v,
                          <<"[4 x i8]", "[4 x i8]* " \o name, "i32 0", "i32 0">>)),
           p.v)

\* IREmitter.gep_cstr
gep_cstr(c, name) == gep_at(tmp(c), name)

\* successive calls of IREmitter.label, one per base
labels(c, bases) ==
    Result([c EXCEPT !.ir.blk_counter = @ + Len(bases)],
           [i \in DOMAIN bases |-> bases[i] \o ToString(c.ir.blk_counter + i)])

\* IREmitter.finalize: the text of the module, line by line
finalize(c) == c.ir.lines

LLVM_INT == "i32"

LLVM_BOOL == "i1"

LLVM_CHAR == "i8"

LLVM_FLOAT == "double"

LLVM_STRING == "i8*"

\* type_to_llvm: for a SimpleType, and for anything else the default
type_to_llvm(t) ==
    LET name == IF t.k = "SimpleType" THEN t.name ELSE NoType
    IN CASE name \in {"int", "integer"} -> LLVM_INT
         [] name \in {"bool", "boolean"} -> LLVM_BOOL
         [] name = "char" -> LLVM_CHAR
         [] name = "float" -> LLVM_FLOAT
         [] name = "string" -> LLVM_STRING
         [] name = "void" -> "void"
         [] OTHER -> LLVM_INT

get_size(t) ==
    LET llty == type_to_llvm(t)
    IN IF llty = LLVM_FLOAT THEN 8
       ELSE IF llty = LLVM_INT \/ llty = LLVM_BOOL THEN 4
       ELSE IF llty = LLVM_CHAR THEN 1
       ELSE 4

param_type_to_llvm(t) ==
    IF t.k = "ArrayType" THEN type_to_llvm(t.base) \o "*" ELSE type_to_llvm(t)

ValueRef(ty, name) == [ty |-> ty, name |-> name]

NoRef == [ty |-> NoType, name |-> NoType]

\* Scope: a chain of variable tables, the innermost last
Scope(parent) == Append(parent, <<>>)

RECURSIVE scope_get(_, _)
scope_get(scope, name) ==
    IF scope = <<>> THEN NoRef
    ELSE IF name \in DOMAIN scope[Len(scope)] THEN scope[Len(scope)][name]
    ELSE scope_get(SubSeq(scope, 1, Len(scope) - 1), name)

scope_set(scope, name, val) ==
    [scope EXCEPT ![Len(scope)] = (name :> val) @@ @]

\* Codegen.__init__
Codegen ==
    [ir |-> IREmitter, globals |-> <<>>, fn_sigs |-> <<>>, arr_len |-> <<>>,
     fn_ret_ty |-> NoType, current_fn_end_label |-> NoType,
     cur_fn_name |-> NoType, cur_fn_params |-> <<>>]

\* a dictionary with one more entry
Put(map, key, val) == (key :> val) @@ map

(***************************************************************************)
(* Codegen, expressions (bminor2llvm.py lines 513-556 and 658-943).  A     *)
(* value computed once and used several times is an operator's parameter.  *)
(***************************************************************************)
\* one instruction, once its result register r.v is taken
instr_at(r, op, ty, operands) ==
    Result(emit(r.c, Line(op, r.v, operands)), ValueRef(ty, r.v))

\* one instruction with a fresh result register: r = self.ir.tmp(); emit(...)
Instr(c, op, ty, operands) == instr_at(tmp(c), op, ty, operands)

IsFmtLine(ln) == ln.def \in {"@.fmt_int", "@.fmt_float", "@.fmt_char", "@.fmt_str"}

LastFmt(lines) ==
    LET at == {j \in DOMAIN lines : IsFmtLine(lines[j])}
    IN IF at = {} THEN 0 ELSE CHOOSE j \in at : \A m \in at : m <= j

InsertAt(lines, insert_at, line) ==
    SubSeq(lines, 1, insert_at) \o <<line>> \o SubSeq(lines, insert_at + 1, Len(lines))

\* Codegen._declare_len_global: the cell is inserted after the last @.fmt_ line
declare_len_global(c, gname) ==
    IF \E j \in DOMAIN c.ir.lines : c.ir.lines[j].def = gname THEN c
    ELSE [c EXCEPT !.ir.lines =
            InsertAt(@, LastFmt(@), Line("global", gname, <<"i32", "0">>))]

\* the length recorded for a name, as an i32 value
LoadLength(c, v) ==
    IF v.ty = LLVM_INT \o "*"
    THEN Instr(c, "load", LLVM_INT, <<"i32", "i32* " \o v.name>>)
    ELSE Result(c, ValueRef(LLVM_INT, v.name))

\* the type [N x T], and the N of a type that has this shape
ArraySizes == 0..9

ElemTypes == {LLVM_INT, LLVM_BOOL, LLVM_CHAR, LLVM_FLOAT, LLVM_STRING, "void"}

ArrayTy(n, base) == "[" \o ToString(n) \o " x " \o base \o "]"

IsSizedArrayTy(gty) == \E n \in ArraySizes : \E t \in ElemTypes : gty = ArrayTy(n, t)

SizedArrayLen(gty) ==
    ToString(CHOOSE n \in ArraySizes : \E t \in ElemTypes : gty = ArrayTy(n, t))

IsSizedGlobal(c, name) ==
    name \in DOMAIN c.globals /\ IsSizedArrayTy(c.globals[name].ty)

\* the array a length is asked of: an identifier, or the base of a[i]
ArrayName(node) ==
    IF node.k = "Identifier" THEN node.name
    ELSE IF node.k = "ArrayIndex" /\ node.array.k = "Identifier" THEN node.array.name
    ELSE NoType

\* Codegen._try_arg_length
try_arg_length(c, arg_node, scope) ==
    IF ArrayName(arg_node) \in DOMAIN c.arr_len
    THEN LoadLength(c, c.arr_len[ArrayName(arg_node)])
    ELSE IF arg_node.k = "Identifier" /\ IsSizedGlobal(c, arg_node.name)
    THEN Result(c, ValueRef(LLVM_INT, SizedArrayLen(c.globals[arg_node.name].ty)))
    ELSE Result(c, NoRef)

IndexOf(seq, x) == CHOOSE j \in DOMAIN seq : seq[j] = x /\ \A m \in 1..(j - 1) : seq[m] # x

\* the cell "@.len.<fn>.p<i>" of a function and a parameter position
LenCell(fn, i) == "@.len." \o fn \o ".p" \o ToString(i)

\* Codegen._get_array_length, for the array called name
array_length_of(c, name) ==
    IF name = NoType THEN Result(c, ValueRef(LLVM_INT, "0"))
    ELSE IF name \in DOMAIN c.arr_len
    THEN LoadLength(c, c.arr_len[name])
    ELSE IF IsSizedGlobal(c, name)
    THEN Result(c, ValueRef(LLVM_INT, SizedArrayLen(c.globals[name].ty)))
    ELSE IF /\ c.cur_fn_name # NoType
            /\ \E j \in DOMAIN c.cur_fn_params : c.cur_fn_params[j] = name
    THEN Instr(declare_len_global(c, LenCell(c.cur_fn_name,
                                            IndexOf(c.cur_fn_params, name) - 1)),
               "load", LLVM_INT,
               <<"i32", "i32* " \o LenCell(c.cur_fn_name,
                                           IndexOf(c.cur_fn_params, name) - 1)>>)
    ELSE Result(c, ValueRef(LLVM_INT, "0"))

\* Codegen._get_array_length
get_array_length(c, arr_node, scope) == array_length_of(c, ArrayName(arr_node))

FmtName(ty) ==
    CASE ty \in {LLVM_INT, LLVM_BOOL} -> "@.fmt_int"
      [] ty = LLVM_CHAR -> "@.fmt_char"
      [] ty = LLVM_FLOAT -> "@.fmt_float"
      [] ty = LLVM_STRING -> "@.fmt_str"
      [] OTHER -> "@.fmt_int"

PrintArgTy(ty) == IF ty \in {LLVM_CHAR, LLVM_FLOAT, LLVM_STRING} THEN ty ELSE "i32"

\* Codegen._gen_print, once the format pointer fmt.v is computed
print_at(fmt, v) ==
    emit(fmt.c, Line("call", "", <<"i32 (i8*, ...) @printf", "i8* " \o fmt.v,
                                   PrintArgTy(v.ty) \o " " \o v.name>>))

\* Codegen._gen_print
gen_print(c, v) == print_at(gep_cstr(c, FmtName(v.ty)), v)

\* Codegen._as_i1
as_i1(c, v) ==
    IF v.ty = LLVM_BOOL THEN Result(c, v)
    ELSE IF v.ty = LLVM_INT \/ v.ty = LLVM_CHAR
    THEN Instr(c, "icmp ne", LLVM_BOOL, <<v.ty \o " " \o v.name, "0">>)
    ELSE IF v.ty = LLVM_FLOAT
    THEN Instr(c, "fcmp one", LLVM_BOOL, <<"double " \o v.name, "0.0">>)
    ELSE Result(c, ValueRef(LLVM_BOOL, "true"))

\* self._as_i1(self._gen_expr(...))
as_i1_of(r) == as_i1(r.c, r.v)

IntOps == [p \in {"+", "-", "*", "/", "%"} |->
             CASE p = "+" -> "add" [] p = "-" -> "sub" [] p = "*" -> "mul"
               [] p = "/" -> "sdiv" [] p = "%" -> "srem"]

FloatOps == [p \in {"+", "-", "*", "/"} |->
               CASE p = "+" -> "fadd" [] p = "-" -> "fsub" [] p = "*" -> "fmul"
                 [] p = "/" -> "fdiv"]

ICmpOps == [p \in {"==", "!=", "<", "<=", ">", ">="} |->
              CASE p = "==" -> "eq" [] p = "!=" -> "ne" [] p = "<" -> "slt"
                [] p = "<=" -> "sle" [] p = ">" -> "sgt" [] p = ">=" -> "sge"]

FCmpOps == [p \in {"==", "!=", "<", "<=", ">", ">="} |->
              CASE p = "==" -> "oeq" [] p = "!=" -> "one" [] p = "<" -> "olt"
                [] p = "<=" -> "ole" [] p = ">" -> "ogt" [] p = ">=" -> "oge"]

\* an operand of a float operation: converted unless it is a double
to_float(c, v) ==
    IF v.ty # LLVM_FLOAT
    THEN Instr(c, "sitofp", LLVM_FLOAT, <<v.ty \o " " \o v.name, "double">>)
    ELSE Result(c, v)

float_binop_emit(a, cb, oper) ==
    IF oper \in DOMAIN FloatOps
    THEN Instr(cb.c, FloatOps[oper], LLVM_FLOAT, <<"double " \o a.name, cb.v.name>>)
    ELSE IF oper \in DOMAIN FCmpOps
    THEN Instr(cb.c, "fcmp " \o FCmpOps[oper], LLVM_BOOL, <<"double " \o a.name, cb.v.name>>)
    ELSE Result(cb.c, ValueRef(LLVM_INT, "0"))

float_binop_right(ca, b0, oper) == float_binop_emit(ca.v, to_float(ca.c, b0), oper)

logic_binop_emit(aa, bb, oper) ==
    Instr(bb.c, IF oper = "&&" THEN "and" ELSE "or", LLVM_BOOL,
          <<"i1 " \o aa.name, bb.v.name>>)

logic_binop_right(aa, b0, oper) == logic_binop_emit(aa.v, as_i1(aa.c, b0), oper)

\* the instruction of a binary operation whose operands a0, b0 are generated
gen_binop(c, oper, a0, b0) ==
    IF a0.ty = LLVM_FLOAT \/ b0.ty = LLVM_FLOAT
    THEN float_binop_right(to_float(c, a0), b0, oper)
    ELSE IF oper \in DOMAIN IntOps
    THEN Instr(c, IntOps[oper], a0.ty, <<a0.ty \o " " \o a0.name, b0.name>>)
    ELSE IF oper \in DOMAIN ICmpOps
    THEN Instr(c, "icmp " \o ICmpOps[oper], LLVM_BOOL, <<a0.ty \o " " \o a0.name, b0.name>>)
    ELSE IF oper \in {"&&", "||"}
    THEN logic_binop_right(as_i1(c, a0), b0, oper)
    ELSE Result(c, ValueRef(LLVM_INT, "0"))

gen_binop_of(a, b, oper) == gen_binop(b.c, oper, a, b.v)

\* the store of a known argument length into the callee's cell
store_length(L, gname) ==
    IF L.v = NoRef THEN L.c
    ELSE emit(declare_len_global(L.c, gname),
              Line("store", "", <<"i32 " \o L.v.name, "i32* " \o gname>>))

\* the stores of the known argument lengths, from argument i
RECURSIVE inject_lengths(_, _, _, _, _)
inject_lengths(c, callee, args, i, scope) ==
    IF i > Len(args) THEN c
    ELSE inject_lengths(store_length(try_arg_length(c, args[i], scope),
                                     LenCell(callee, i - 1)),
                        callee, args, i + 1, scope)

ArgList(argvals) == [j \in DOMAIN argvals |-> argvals[j].ty \o " " \o argvals[j].name]

\* the call instruction of a user function, its arguments generated
call_emit(c, callee, argvals) ==
    IF callee \in DOMAIN c.fn_sigs /\ c.fn_sigs[callee].ret = "void"
    THEN Result(emit(c, Line("call", "", <<"void @" \o callee>> \o ArgList(argvals))),
                ValueRef(LLVM_INT, "0"))
    ELSE IF callee \in DOMAIN c.fn_sigs
    THEN Instr(c, "call", c.fn_sigs[callee].ret,
               <<c.fn_sigs[callee].ret \o " @" \o callee>> \o ArgList(argvals))
    ELSE Instr(c, "call", LLVM_INT, <<LLVM_INT \o " @" \o callee>> \o ArgList(argvals))

call_of(argvals, callee, args, scope) ==
    call_emit(inject_lengths(argvals.c, callee, args, 1, scope), callee, argvals.v)

\* the store of an assignment, its value generated
assign_store(val, ty, name) ==
    Result(emit(val.c, Line("store", "", <<ty \o " " \o val.v.name, ty \o "* " \o name>>)),
           val.v)

args_cons(v, rest) == Result(rest.c, <<v>> \o rest.v)

print_of(r) == gen_print(r.c, r.v)

FloatText(value) == ToString(value) \o ".0"

Callee_name(e) == IF e.func.k = "Identifier" THEN e.func.name ELSE "unknown"

\* the types T* and the T of each
IsPtrTy(ty) == \E t \in ElemTypes : ty = t \o "*"

Pointee(ty) == CHOOSE t \in ElemTypes : ty = t \o "*"

\* the T of [N x T]
ElemOf(gty) == CHOOSE t \in ElemTypes : \E n \in ArraySizes : gty = ArrayTy(n, t)

\* the pointer to the first element of the array at name, of type ty = [N x T]
first_elem(c, ty, name) ==
    Instr(c, "getelementptr", ElemOf(ty), <<ty, ty \o "* " \o name, "i32 0", "i32 0">>)

\* Codegen._gen_array_ptr, for a base found in the scope as v: a ValueRef of
\* the element type whose name is the base pointer
array_ptr_local(c, v, node) ==
    IF IsSizedArrayTy(v.ty) THEN first_elem(c, v.ty, v.name)
    ELSE IF IsPtrTy(v.ty)
    THEN Instr(c, "load", Pointee(v.ty), <<v.ty, v.ty \o "* " \o v.name>>)
    ELSE IF IsSizedGlobal(c, node.array.name)
    THEN first_elem(c, c.globals[node.array.name].ty, c.globals[node.array.name].name)
    ELSE Instr(c, "bitcast", LLVM_INT, <<"i8* null", "i32*">>)

\* Codegen._gen_array_ptr
gen_array_ptr(c, node, scope) ==
    IF node.array.k = "Identifier" /\ scope_get(scope, node.array.name) # NoRef
    THEN array_ptr_local(c, scope_get(scope, node.array.name), node)
    ELSE IF node.array.k = "Identifier" /\ IsSizedGlobal(c, node.array.name)
    THEN first_elem(c, c.globals[node.array.name].ty, c.globals[node.array.name].name)
    ELSE Instr(c, "bitcast", LLVM_INT, <<"i8* null", "i32*">>)

\* an element address that ignores the index
elem_gep_first(base, i) ==
    Instr(i.c, "getelementptr", base.ty,
          <<base.ty, base.ty \o "* " \o base.name, "i32 0">>)

\* the address of element i.v of the array at base.name
elem_gep(base, i) ==
    Instr(i.c, "getelementptr", base.ty,
          <<base.ty, base.ty \o "* " \o base.name, "i32 " \o i.v.name>>)

\* the load of the element at gep.v
elem_load(gep) ==
    Instr(gep.c, "load", gep.v.ty, <<gep.v.ty, gep.v.ty \o "* " \o gep.v.name>>)

\* the value of an assignment to an element brought to the element's type
elem_cast(val, elem_ty) ==
    IF val.v.ty = elem_ty THEN val
    ELSE IF val.v.ty \in {LLVM_BOOL, LLVM_CHAR}
    THEN Instr(val.c, "zext", LLVM_INT, <<val.v.ty \o " " \o val.v.name, "i32">>)
    ELSE IF val.v.ty = LLVM_FLOAT /\ elem_ty = LLVM_INT
    THEN Instr(val.c, "fptosi", LLVM_INT, <<"double " \o val.v.name, "i32">>)
    ELSE val

\* the store of an assignment to the element at gep, its value cast
elem_store(castv, gep) ==
    Result(emit(castv.c, Line("store", "", <<gep.ty \o " " \o castv.v.name,
                                            gep.ty \o "* " \o gep.name>>)),
           ValueRef(gep.ty, castv.v.name))

RECURSIVE gen_expr(_, _, _)
RECURSIVE gen_args(_, _, _)
RECURSIVE gen_args_rest(_, _, _)
RECURSIVE gen_prints(_, _, _)
RECURSIVE gen_binop_right(_, _, _)
RECURSIVE gen_index(_, _, _)
RECURSIVE gen_index_assign(_, _, _)
RECURSIVE gen_elem_assign(_, _, _)

\* argvals = [self._gen_expr(a, scope) for a in e.args]
gen_args(c, args, scope) ==
    IF args = <<>> THEN Result(c, <<>>)
    ELSE gen_args_rest(gen_expr(c, Head(args), scope), Tail(args), scope)

gen_args_rest(first, args, scope) == args_cons(first.v, gen_args(first.c, args, scope))

\* for a in args: self._gen_print(self._gen_expr(a, scope))
gen_prints(c, args, scope) ==
    IF args = <<>> THEN c
    ELSE gen_prints(print_of(gen_expr(c, Head(args), scope)), Tail(args), scope)

gen_binop_right(a, e, scope) == gen_binop_of(a.v, gen_expr(a.c, e.right, scope), e.oper)

\* the element address of a[i], the base pointer computed
gen_index(base, e, scope) == elem_gep(base.v, gen_expr(base.c, e.index, scope))

\* a[i] = value, the element address computed
gen_elem_assign(gep, e, scope) ==
    elem_store(elem_cast(gen_expr(gep.c, e.value, scope), gep.v.ty), gep.v)

\* a[i] = value, the base pointer computed
gen_index_assign(base, e, scope) ==
    gen_elem_assign(gen_index(base, e.target, scope), e, scope)

\* Codegen._gen_expr
gen_expr(c, e, scope) ==
    CASE e.k = "Integer" -> Result(c, ValueRef(LLVM_INT, ToString(e.value)))
      [] e.k = "Boolean" -> Result(c, ValueRef(LLVM_BOOL, IF e.value THEN "1" ELSE "0"))
      [] e.k = "Float" -> Result(c, ValueRef(LLVM_FLOAT, FloatText(e.value)))
      [] e.k = "Identifier" ->
           IF scope_get(scope, e.name) # NoRef
           THEN Instr(c, "load", scope_get(scope, e.name).ty,
                      <<scope_get(scope, e.name).ty,
                        scope_get(scope, e.name).ty \o "* " \o scope_get(scope, e.name).name>>)
           ELSE IF e.name \in DOMAIN c.globals
           THEN Instr(c, "load", c.globals[e.name].ty,
                      <<c.globals[e.name].ty,
                        c.globals[e.name].ty \o "* " \o c.globals[e.name].name>>)
           ELSE Result(c, ValueRef(LLVM_INT, "0"))
      [] e.k = "Assign" ->
           IF e.target.k = "ArrayIndex"
           THEN gen_index_assign(gen_array_ptr(c, e.target, scope), e, scope)
           ELSE IF e.target.k # "Identifier" THEN gen_expr(c, e.value, scope)
           ELSE IF scope_get(scope, e.target.name) # NoRef
           THEN assign_store(gen_expr(c, e.value, scope),
                             scope_get(scope, e.target.name).ty,
                             scope_get(scope, e.target.name).name)
           ELSE IF e.target.name \in DOMAIN c.globals
           THEN assign_store(gen_expr(c, e.value, scope),
                             c.globals[e.target.name].ty, c.globals[e.target.name].name)
           ELSE gen_expr(c, e.value, scope)
      [] e.k = "Call" ->
           IF e.func.k = "Identifier" /\ e.func.name = "print"
           THEN Result(gen_prints(c, e.args, scope), ValueRef(LLVM_INT, "0"))
           ELSE IF e.func.k = "Identifier" /\ e.func.name = "array_length"
           THEN (IF e.args = <<>> THEN Result(c, ValueRef(LLVM_INT, "0"))
                 ELSE get_array_length(c, e.args[1], scope))
           ELSE call_of(gen_args(c, e.args, scope), Callee_name(e), e.args, scope)
      [] e.k = "ArrayIndex" ->
           elem_load(gen_index(gen_array_ptr(c, e, scope), e, scope))
      [] e.k = "BinOper" -> gen_binop_right(gen_expr(c, e.left, scope), e, scope)
      [] OTHER -> Result(c, ValueRef(LLVM_INT, "0"))

(***************************************************************************)
(* Codegen, statements and declarations (bminor2llvm.py lines 313-655).    *)
(* A statement generator gives the generator after it and the scope.       *)
(***************************************************************************)
Generated(c, scope) == [c |-> c, scope |-> scope]

\* the value brought to i32 for a size
size_value(nval) ==
    IF nval.v.ty = LLVM_INT THEN nval
    ELSE IF nval.v.ty \in {LLVM_BOOL, LLVM_CHAR}
    THEN Instr(nval.c, "zext", LLVM_INT, <<nval.v.ty \o " " \o nval.v.name, "i32">>)
    ELSE IF nval.v.ty = LLVM_FLOAT
    THEN Instr(nval.c, "fptosi", LLVM_INT, <<"double " \o nval.v.name, "i32">>)
    ELSE Instr(nval.c, "add", LLVM_INT, <<"i32 0", "0">>)

\* _gen_local_vardecl, array of non-literal size: the length slot is written
dynamic_array_done(slot, n, len_slot, d, scope) ==
    Generated([emit(len_slot.c, Line("store", "",
                      <<"i32 " \o n.name, "i32* " \o len_slot.v.name>>))
                 EXCEPT !.arr_len = Put(@, d.name, len_slot.v)],
              scope_set(scope, d.name, slot))

dynamic_array_cast(slot, n, cast, d, scope) ==
    dynamic_array_done(slot, n,
        Instr(emit(cast.c, Line("store", "",
                     <<cast.v.ty \o " " \o cast.v.name, cast.v.ty \o "* " \o slot.name>>)),
              "alloca", "i32*", <<"i32">>),
        d, scope)

dynamic_array_raw(slot, n, raw, d, scope) ==
    dynamic_array_cast(slot, n,
        Instr(raw.c, "bitcast", slot.ty, <<"i8* " \o raw.v.name, slot.ty>>), d, scope)

dynamic_array_bytes(slot, n, bytes_cnt, d, scope) ==
    dynamic_array_raw(slot, n,
        Instr(bytes_cnt.c, "call", "i8*", <<"i8* @malloc", "i32 " \o bytes_cnt.v.name>>),
        d, scope)

dynamic_array_size(slot, nval, d, scope) ==
    dynamic_array_bytes(slot, nval.v,
        Instr(nval.c, "mul", LLVM_INT,
              <<"i32 " \o nval.v.name, ToString(get_size(d.type.base))>>),
        d, scope)

\* _gen_local_vardecl, array of non-literal size, its pointer slot allocated
dynamic_array_at(slot, d, scope) ==
    IF d.type.size.k = "None" THEN Generated(slot.c, scope)
    ELSE dynamic_array_size(slot.v, size_value(gen_expr(slot.c, d.type.size, scope)),
                            d, scope)

\* the initializer brought to the declared type
scalar_cast(v, llty) ==
    IF v.v.ty = llty THEN v
    ELSE IF v.v.ty \in {LLVM_BOOL, LLVM_CHAR} /\ llty = LLVM_INT
    THEN Instr(v.c, "zext", llty, <<v.v.ty \o " " \o v.v.name, "i32">>)
    ELSE IF v.v.ty = LLVM_FLOAT /\ llty = LLVM_INT
    THEN Instr(v.c, "fptosi", llty, <<"double " \o v.v.name, "i32">>)
    ELSE Result(v.c, ValueRef(llty, v.v.name))

scalar_store(slot, v, scope) ==
    Generated(emit(v.c, Line("store", "",
                     <<slot.ty \o " " \o v.v.name, slot.ty \o "* " \o slot.name>>)),
              scope)

\* _gen_local_vardecl, a scalar, its slot allocated
scalar_at(slot, d, scope) ==
    IF d.init.k # "None"
    THEN scalar_store(slot.v,
                      scalar_cast(gen_expr(slot.c, d.init, scope_set(scope, d.name, slot.v)),
                                  slot.v.ty),
                      scope_set(scope, d.name, slot.v))
    ELSE Generated(emit(slot.c, Line("store", "",
                          <<slot.v.ty \o " 0", slot.v.ty \o "* " \o slot.v.name>>)),
                   scope_set(scope, d.name, slot.v))

\* _gen_local_vardecl, array of literal size, its slot allocated
static_array_at(slot, d, scope) ==
    Generated([slot.c EXCEPT !.arr_len =
                 Put(@, d.name, ValueRef(LLVM_INT, ToString(d.type.size.value)))],
              scope_set(scope, d.name, slot.v))

\* Codegen._gen_local_vardecl
gen_local_vardecl(c, d, scope) ==
    IF d.type.k = "ArrayType" /\ d.type.size.k = "Integer"
    THEN static_array_at(
           Instr(c, "alloca", ArrayTy(d.type.size.value, type_to_llvm(d.type.base)),
                 <<ArrayTy(d.type.size.value, type_to_llvm(d.type.base))>>),
           d, scope)
    ELSE IF d.type.k = "ArrayType"
    THEN dynamic_array_at(
           Instr(c, "alloca", type_to_llvm(d.type.base) \o "*",
                 <<type_to_llvm(d.type.base) \o "*">>),
           d, scope)
    ELSE scalar_at(Instr(c, "alloca", type_to_llvm(d.type), <<type_to_llvm(d.type)>>),
                   d, scope)

\* "n.body if isinstance(n.body, Block) else Block(stmts=[n.body])"
AsBlock(n) == IF n.k = "Block" THEN n.stmts ELSE <<n>>

Br(target) == Line("br", "", <<"label %" \o target>>)

CondBr(cond, a, b) ==
    Line("br", "", <<"i1 " \o cond.name, "label %" \o a, "label %" \o b>>)

Label(name) == Line("label", name, <<>>)

\* the conditional branch on a generated condition, then the label that follows
branch_on(cond, a, b, next) == emit2(cond.c, CondBr(cond.v, a, b), Label(next))

\* the IR of "return expr", the value generated
ret_of(v) == emit(v.c, Line("ret", "", <<v.v.ty \o " " \o v.v.name>>))

RECURSIVE gen_block(_, _, _)
RECURSIVE gen_block_after(_, _)
RECURSIVE gen_stmt(_, _, _)
RECURSIVE gen_if(_, _, _)
RECURSIVE gen_if_cond(_, _, _)
RECURSIVE gen_if_at(_, _, _, _)
RECURSIVE gen_if_else(_, _, _)
RECURSIVE gen_while(_, _, _)
RECURSIVE gen_while_at(_, _, _)
RECURSIVE gen_dowhile(_, _, _)
RECURSIVE gen_dowhile_at(_, _, _)
RECURSIVE gen_for(_, _, _)
RECURSIVE gen_for_at(_, _, _)

\* Codegen._gen_if
gen_if(c, n, scope) == gen_if_cond(as_i1_of(gen_expr(c, n.cond, scope)), n, scope)

gen_if_cond(cond, n, scope) ==
    gen_if_at(labels(cond.c, <<"then.", "else.", "endif.">>), cond.v, n, scope)

gen_if_else(c, n, scope) ==
    IF n.otherwise.k # "None" THEN gen_block(c, AsBlock(n.otherwise), Scope(scope)).c
    ELSE c

\* L.v: the labels then, else, endif
gen_if_at(L, cond, n, scope) ==
    emit2(gen_if_else(
            emit2(gen_block(emit2(L.c, CondBr(cond, L.v[1], L.v[2]), Label(L.v[1])),
                            AsBlock(n.then), Scope(scope)).c,
                  Br(L.v[3]), Label(L.v[2])),
            n, scope),
          Br(L.v[3]), Label(L.v[3]))

\* Codegen._gen_while
gen_while(c, n, scope) ==
    gen_while_at(labels(c, <<"while.head.", "while.body.", "while.end.">>), n, scope)

\* L.v: the labels head, body, end
gen_while_at(L, n, scope) ==
    emit2(gen_block(
            branch_on(as_i1_of(gen_expr(emit2(L.c, Br(L.v[1]), Label(L.v[1])),
                                        n.cond, scope)),
                      L.v[2], L.v[3], L.v[2]),
            AsBlock(n.body), Scope(scope)).c,
          Br(L.v[1]), Label(L.v[3]))

\* Codegen._gen_dowhile
gen_dowhile(c, n, scope) ==
    gen_dowhile_at(labels(c, <<"do.body.", "do.head.", "do.end.">>), n, scope)

\* L.v: the labels body, head, end
gen_dowhile_at(L, n, scope) ==
    branch_on(
      as_i1_of(gen_expr(
        emit2(gen_block(emit2(L.c, Br(L.v[1]), Label(L.v[1])),
                        AsBlock(n.body), Scope(scope)).c,
              Br(L.v[2]), Label(L.v[2])),
        n.cond, scope)),
      L.v[1], L.v[3], L.v[3])

\* an optional expression of a for statement
gen_opt(c, e, scope) == IF e.k # "None" THEN gen_expr(c, e, scope).c ELSE c

\* the condition of a for statement, "true" when there is none
gen_for_cond(c, n, scope) ==
    IF n.cond.k # "None" THEN as_i1_of(gen_expr(c, n.cond, scope))
    ELSE Result(c, ValueRef(LLVM_BOOL, "true"))

\* Codegen._gen_for
gen_for(c, n, scope) ==
    gen_for_at(labels(gen_opt(c, n.init, Scope(scope)),
                      <<"for.head.", "for.body.", "for.step.", "for.end.">>),
               n, Scope(scope))

\* L.v: the labels head, body, step, end
gen_for_at(L, n, init_scope) ==
    emit2(gen_opt(
            emit2(gen_block(
                    branch_on(gen_for_cond(emit2(L.c, Br(L.v[1]), Label(L.v[1])),
                                           n, init_scope),
                              L.v[2], L.v[4], L.v[2]),
                    AsBlock(n.body), Scope(init_scope)).c,
                  Br(L.v[3]), Label(L.v[3])),
            n.step, init_scope),
          Br(L.v[1]), Label(L.v[4]))

\* one statement of a block that is neither a declaration nor a return
gen_stmt(c, s, scope) ==
    CASE s.k = "PrintStmt" -> gen_prints(c, s.args, scope)
      [] s.k = "IfStmt" -> gen_if(c, s, scope)
      [] s.k = "WhileStmt" -> gen_while(c, s, scope)
      [] s.k = "DoWhileStmt" -> gen_dowhile(c, s, scope)
      [] s.k = "ForStmt" -> gen_for(c, s, scope)
      [] s.k = "Block" -> gen_block(c, s.stmts, Scope(scope)).c
      [] OTHER -> gen_expr(c, s, scope).c

gen_block_after(r, stmts) == gen_block(r.c, stmts, r.scope)

\* Codegen._gen_block: the statements of a block, in the scope given; a
\* return statement ends the generation of the block
gen_block(c, stmts, scope) ==
    IF stmts = <<>> THEN Generated(c, scope)
    ELSE IF Head(stmts).k = "ReturnStmt" /\ Head(stmts).expr.k = "None"
    THEN Generated(emit(c, Br(c.current_fn_end_label)), scope)
    ELSE IF Head(stmts).k = "ReturnStmt"
    THEN Generated(ret_of(gen_expr(c, Head(stmts).expr, scope)), scope)
    ELSE IF Head(stmts).k = "VarDecl" /\ Head(stmts).type.k # "FuncType"
    THEN gen_block_after(gen_local_vardecl(c, Head(stmts), scope), Tail(stmts))
    ELSE gen_block(gen_stmt(c, Head(stmts), scope), Tail(stmts), scope)

\* the stores of the parameters into their slots, from parameter i
RECURSIVE gen_params(_, _, _, _)
RECURSIVE gen_param_at(_, _, _, _)

gen_params(c, params, i, scope) ==
    IF i > Len(params) THEN Generated(c, scope)
    ELSE gen_param_at(Instr(c, "alloca", param_type_to_llvm(params[i].type),
                            <<param_type_to_llvm(params[i].type)>>),
                      params, i, scope)

gen_param_at(slot, params, i, scope) ==
    gen_params(emit(slot.c, Line("store", "",
                      <<slot.v.ty \o " %" \o params[i].name,
                        slot.v.ty \o "* " \o slot.v.name>>)),
               params, i + 1, scope_set(scope, params[i].name, slot.v))

\* the "define" line of a function: its name, return type and parameters
Define(fname, ret_llty, params) ==
    [op |-> "define", def |-> fname,
     args |-> <<ret_llty>> \o [i \in DOMAIN params |->
                  param_type_to_llvm(params[i].type) \o " %" \o params[i].name],
     params |-> [i \in DOMAIN params |-> "%" \o params[i].name]]

RetLlty(fdecl) ==
    IF fdecl.type.ret.k # "None" THEN type_to_llvm(fdecl.type.ret) ELSE "void"

\* _gen_function, the fields set on entry and the "define" line
function_enter(c, fdecl) ==
    emit([c EXCEPT !.fn_ret_ty = RetLlty(fdecl),
                   !.cur_fn_name = fdecl.name,
                   !.cur_fn_params = [i \in DOMAIN fdecl.type.params |->
                                        fdecl.type.params[i].name]],
         Define("@" \o fdecl.name, RetLlty(fdecl), fdecl.type.params))

\* _gen_function, the end label, the default return and the fields reset
function_leave(c, fdecl) ==
    [emit(emit2(c, Label(c.current_fn_end_label),
                IF RetLlty(fdecl) = "void" THEN Line("ret", "", <<"void">>)
                ELSE Line("ret", "", <<RetLlty(fdecl) \o " 0">>)),
          Line("close", "", <<>>))
       EXCEPT !.fn_ret_ty = NoType, !.current_fn_end_label = NoType,
              !.cur_fn_name = NoType, !.cur_fn_params = <<>>]

\* _gen_function up to the body: the parameters and the end label
function_labelled(endL, scope) ==
    Generated([endL.c EXCEPT !.current_fn_end_label = endL.v], scope)

function_params(ps) == function_labelled(label(ps.c, "endfn."), ps.scope)

function_prologue(c, fdecl) ==
    function_params(gen_params(function_enter(c, fdecl), fdecl.type.params, 1,
                               Scope(<<>>)))

\* the statements _gen_function hands to _gen_block
FunctionStmts(fdecl) == IF fdecl.init.k = "Block" THEN fdecl.init.stmts ELSE <<>>

\* the literal a global scalar is initialised with
GlobalInit(d, llty) ==
    IF IsLiteral(d.init)
    THEN CASE llty = LLVM_INT /\ d.init.k = "Integer" -> ToString(d.init.value)
           [] llty = LLVM_BOOL /\ d.init.k = "Boolean" -> IF d.init.value THEN "1" ELSE "0"
           [] llty = LLVM_BOOL /\ d.init.k = "Integer" ->
                IF d.init.value # 0 THEN "1" ELSE "0"
           [] llty = LLVM_FLOAT /\ d.init.k \in {"Integer", "Float"} -> FloatText(d.init.value)
           [] llty = LLVM_INT /\ d.init.k = "Boolean" -> IF d.init.value THEN "1" ELSE "0"
           [] llty = LLVM_INT /\ d.init.k = "Float" -> ToString(d.init.value)
           [] OTHER -> "0"
    ELSE "0"

\* Codegen._gen_global_decl
gen_global_decl(c, d) ==
    LET gname == "@" \o d.name
    IN IF d.type.k = "ArrayType"
       THEN LET base_llty == type_to_llvm(d.type.base)
            IN IF d.type.size.k = "Integer"
               THEN LET n == d.type.size.value
                        c1 == [c EXCEPT !.globals =
                                  Put(@, d.name, ValueRef(ArrayTy(n, base_llty), gname))]
                        c2 == emit(c1, Line("global", gname,
                                            <<ArrayTy(n, base_llty), "zeroinitializer">>))
                    IN [c2 EXCEPT !.arr_len = Put(@, d.name, ValueRef(LLVM_INT, ToString(n)))]
               ELSE emit([c EXCEPT !.globals =
                             Put(@, d.name, ValueRef(base_llty \o "*", gname))],
                         Line("global", gname, <<base_llty \o "*", "null">>))
       ELSE LET llty == type_to_llvm(d.type)
            IN emit([c EXCEPT !.globals = Put(@, d.name, ValueRef(llty, gname))],
                    Line("global", gname, <<llty, GlobalInit(d, llty)>>))

\* gen_program, step 0: the signatures of the functions of prog.body
FnSigs(body) ==
    LET fns == {i \in DOMAIN body : body[i].k = "VarDecl" /\ body[i].type.k = "FuncType"}
        names == {body[i].name : i \in fns}
        last(name) == CHOOSE i \in fns : body[i].name = name
                          /\ \A j \in fns : body[j].name = name => j <= i
    IN [name \in names |->
          LET s == body[last(name)]
          IN [ret |-> IF s.type.ret.k # "None" THEN type_to_llvm(s.type.ret) ELSE "void",
              params |-> [i \in DOMAIN s.type.params |->
                            param_type_to_llvm(s.type.params[i].type)]]]

(***************************************************************************)
(* The module-level driver of bminor2llvm.py (lines 947-964): parse, then  *)
(* Codegen.gen_program over the tree, then finalize and the two writes.    *)
(***************************************************************************)
IsFunction(s) == s.k = "VarDecl" /\ s.type.k = "FuncType"

IsGlobal(s) == s.k = "VarDecl" /\ s.type.k # "FuncType"

\* ast = parse(txt): a syntax error is reported to the sink and leaves no tree
GenParse ==
    /\ gpc = "start"
    /\ \E syntax_ok \in BOOLEAN :
          /\ MSGS' = IF syntax_ok THEN MSGS ELSE Append(MSGS, error("Syntax error", 0))
          /\ HAD_ERRORS' = (HAD_ERRORS \/ ~syntax_ok)
          /\ program' = IF syntax_ok THEN ParseTree(source) ELSE None
    /\ gpc' = "parsed"
    /\ UNCHANGED <<fn_scope, sidx, source, runs, calls, pc, fun_ret_stack, fun_name_stack, saw_return_stack, loop_depth,
                   inits, lhs_mode, symtabs, stack, vals, check, cg, idx, output_ir,
                   out_ll, stdout>>

\* gen_program: the header and the signatures; prog.body of no tree raises
GenHeader ==
    /\ gpc = "parsed"
    /\ IF program.k = "Program"
       THEN /\ cg' = [header(cg) EXCEPT !.fn_sigs = FnSigs(program.body)]
            /\ gpc' = "globals"
       ELSE /\ cg' = header(cg)
            /\ gpc' = "raised"
    /\ idx' = 1
    /\ UNCHANGED <<fn_scope, sidx, source, runs, calls, program, pc, chk_vars, check, output_ir, out_ll, stdout>>

\* gen_program, loop 1: the next statement of prog.body, a global or not
GenGlobalDecl ==
    /\ gpc = "globals"
    /\ idx <= Len(program.body)
    /\ cg' = IF IsGlobal(program.body[idx]) THEN gen_global_decl(cg, program.body[idx])
             ELSE cg
    /\ idx' = idx + 1
    /\ UNCHANGED <<fn_scope, sidx, source, runs, calls, program, pc, chk_vars, gpc, check, output_ir, out_ll, stdout>>

GenGlobalsDone ==
    /\ gpc = "globals"
    /\ idx > Len(program.body)
    /\ gpc' = "functions"
    /\ idx' = 1
    /\ UNCHANGED <<fn_scope, sidx, source, runs, calls, program, pc, chk_vars, check, cg, output_ir, out_ll, stdout>>

\* gen_program, loop 2: the next statement of prog.body; a function is
\* entered (_gen_function up to its body), anything else is passed over
GenFunction ==
    /\ gpc = "functions"
    /\ idx <= Len(program.body)
    /\ IF IsFunction(program.body[idx])
       THEN /\ cg' = function_prologue(cg, program.body[idx]).c
            /\ fn_scope' = function_prologue(cg, program.body[idx]).scope
            /\ sidx' = 1
            /\ gpc' = "body"
            /\ idx' = idx
       ELSE /\ idx' = idx + 1
            /\ UNCHANGED <<cg, fn_scope, sidx, gpc>>
    /\ UNCHANGED <<source, runs, calls, program, pc, chk_vars, check, output_ir, out_ll, stdout>>

\* _gen_block on the body of the function: its next statement; a return
\* statement ends the loop
GenStatement ==
    /\ gpc = "body"
    /\ sidx <= Len(FunctionStmts(program.body[idx]))
    /\ cg' = gen_block(cg, <<FunctionStmts(program.body[idx])[sidx]>>, fn_scope).c
    /\ fn_scope' = gen_block(cg, <<FunctionStmts(program.body[idx])[sidx]>>, fn_scope).scope
    /\ sidx' = IF FunctionStmts(program.body[idx])[sidx].k = "ReturnStmt"
               THEN Len(FunctionStmts(program.body[idx])) + 1 ELSE sidx + 1
    /\ UNCHANGED <<source, runs, calls, program, pc, chk_vars, gpc, check, idx, output_ir, out_ll,
                   stdout>>

\* _gen_function after the body: the end label, the default return, "}"
GenFunctionEnd ==
    /\ gpc = "body"
    /\ sidx > Len(FunctionStmts(program.body[idx]))
    /\ cg' = function_leave(cg, program.body[idx])
    /\ fn_scope' = <<>>
    /\ idx' = idx + 1
    /\ gpc' = "functions"
    /\ UNCHANGED <<source, runs, calls, program, pc, chk_vars, check, sidx, output_ir, out_ll, stdout>>

\* output_ir = em.finalize()
Finalize ==
    /\ gpc = "functions"
    /\ idx > Len(program.body)
    /\ output_ir' = finalize(cg)
    /\ gpc' = "finalized"
    /\ UNCHANGED <<fn_scope, sidx, source, runs, calls, program, pc, chk_vars, check, cg, idx, out_ll, stdout>>

\* "if check is not None": out.ll is written, unless the write raises
WriteOutLl ==
    /\ gpc = "finalized"
    /\ \E written \in BOOLEAN :
          out_ll' = IF check /\ written THEN output_ir ELSE out_ll
    /\ gpc' = "filed"
    /\ UNCHANGED <<fn_scope, sidx, source, runs, calls, program, pc, chk_vars, check, cg, idx, output_ir, stdout>>

\* sys.stdout.write(em.finalize())
WriteStdout ==
    /\ gpc = "filed"
    /\ stdout' = stdout \o finalize(cg)
    /\ gpc' = "done"
    /\ UNCHANGED <<fn_scope, sidx, source, runs, calls, program, pc, chk_vars, check, cg, idx, output_ir, out_ll>>

InitDriver ==
    /\ gpc = "start"
    /\ cg = Codegen
    /\ idx = 1
    /\ fn_scope = <<>>
    /\ sidx = 1
    /\ output_ir = <<>>
    /\ out_ll = <<>>
    /\ stdout = <<>>

(***************************************************************************)
(* The analysis of one program, as bminor.py's check() runs it.            *)
(***************************************************************************)
\* before anything ran: no tree, an empty sink, no analyzer
InitSink ==
    /\ program = None
    /\ runs = [start |-> 0, done |-> <<>>]
    /\ calls = <<>>
    /\ pc = "start"
    /\ HAD_ERRORS = FALSE
    /\ MSGS = <<>>
    /\ fun_ret_stack = <<>>
    /\ fun_name_stack = <<>>
    /\ saw_return_stack = <<>>
    /\ loop_depth = 0
    /\ inits = <<>>
    /\ lhs_mode = FALSE
    /\ symtabs = <<>>
    /\ stack = <<>>
    /\ vals = <<>>

InitCheck ==
    /\ source \in CheckSources
    /\ InitSink
    /\ InitDriver
    /\ check = FALSE

NextCheck ==
    \/ Parse
    \/ CheckRun
    \/ CheckReport
    \/ VisitProgram
    \/ VisitBlock
    \/ LeaveScope
    \/ VisitLiteral
    \/ VisitIdentifier
    \/ VisitFallback
    \/ VisitFuncDecl
    \/ FuncDeclExit
    \/ VisitVarDecl
    \/ ArrayInitElem
    \/ ArrayInitDone
    \/ VarDeclInit
    \/ VisitPrintStmt
    \/ PrintArg
    \/ VisitReturnStmt
    \/ ReturnCheck
    \/ VisitIfStmt
    \/ IfThen
    \/ IfElse
    \/ VisitWhileStmt
    \/ WhileBody
    \/ LoopExit
    \/ VisitDoWhileStmt
    \/ DoAfterBody
    \/ DoCond
    \/ VisitForStmt
    \/ ForCond
    \/ ForExit
    \/ VisitAssign
    \/ AssignValue
    \/ AssignDone
    \/ VisitBinOper
    \/ VisitArrayIndex
    \/ ArrayIndexDone
    \/ BinOperDone
    \/ VisitCall
    \/ CallArg
    \/ CallDone

SpecCheck == InitCheck /\ [][NextCheck]_vars

(***************************************************************************)
(* Check.run called twice on one tree.                                     *)
(***************************************************************************)
InitTwice ==
    /\ source \in TwiceSources
    /\ InitSink
    /\ InitDriver
    /\ check = FALSE

NextTwice ==
    \/ NextCheck
    \/ CheckRunAgain

SpecTwice == InitTwice /\ [][NextTwice]_vars

(***************************************************************************)
(* errors.py on its own: any sequence of at most MaxCalls calls of         *)
(* error(), warn() and clear_errors(), with any kind label.                *)
(***************************************************************************)
SinkTexts == {"e1", "e2"}

SinkKinds == {"Error", "Advertencia"}

Called(op, m) == [op |-> op, msg |-> m]

SetSink(s) ==
    /\ HAD_ERRORS' = s.had
    /\ MSGS' = s.msgs

SinkError ==
    /\ Len(calls) < MaxCalls
    /\ \E text \in SinkTexts, kind \in SinkKinds :
          /\ SetSink(sink_error(Sink, text, Len(calls), kind))
          /\ calls' = Append(calls, Called("error", Msg(kind, text, Len(calls))))
    /\ UNCHANGED <<gen_vars, source, runs, program, pc, fun_ret_stack,
                   fun_name_stack, saw_return_stack, loop_depth, inits, lhs_mode,
                   symtabs, stack, vals>>

SinkWarn ==
    /\ Len(calls) < MaxCalls
    /\ \E text \in SinkTexts, kind \in SinkKinds :
          /\ SetSink(sink_warn(Sink, text, Len(calls), kind))
          /\ calls' = Append(calls, Called("warn", Msg(kind, text, Len(calls))))
    /\ UNCHANGED <<gen_vars, source, runs, program, pc, fun_ret_stack,
                   fun_name_stack, saw_return_stack, loop_depth, inits, lhs_mode,
                   symtabs, stack, vals>>

SinkClear ==
    /\ Len(calls) < MaxCalls
    /\ SetSink(clear_errors(Sink))
    /\ calls' = Append(calls, Called("clear_errors", None))
    /\ UNCHANGED <<gen_vars, source, runs, program, pc, fun_ret_stack,
                   fun_name_stack, saw_return_stack, loop_depth, inits, lhs_mode,
                   symtabs, stack, vals>>

InitCalls ==
    /\ source = [wrapper |-> "top", forms |-> <<1>>]
    /\ InitSink
    /\ InitDriver
    /\ check = FALSE

NextCalls ==
    \/ SinkError
    \/ SinkWarn
    \/ SinkClear

SpecSink == InitCalls /\ [][NextCalls]_vars

(***************************************************************************)
(* The compilation of one program, as bminor2llvm.py runs it.  The checker *)
(* module is the one named on the command line; it may or may not define   *)
(* "check" (checker.py of this repository does not).                       *)
(***************************************************************************)
InitGen ==
    /\ source \in GenSources
    /\ InitSink
    /\ InitDriver
    /\ check \in BOOLEAN

NextGen ==
    \/ GenParse
    \/ GenHeader
    \/ GenGlobalDecl
    \/ GenGlobalsDone
    \/ GenFunction
    \/ GenStatement
    \/ GenFunctionEnd
    \/ Finalize
    \/ WriteOutLl
    \/ WriteStdout

SpecGen == InitGen /\ [][NextGen]_vars

(***************************************************************************)
(* Both programs on one file: bminor.py check, then bminor2llvm.py.        *)
(***************************************************************************)
InitPipeline ==
    /\ source \in PipelineSources
    /\ InitSink
    /\ InitDriver
    /\ check \in BOOLEAN

\* bminor.py check has ended
Checked == pc \in {"syntax_errors", "semantic_errors", "semantic_ok"}

NextPipeline ==
    \/ gpc = "start" /\ Parse
    \/ gpc = "start" /\ CheckRun
    \/ gpc = "start" /\ CheckReport
    \/ gpc = "start" /\ VisitProgram
    \/ gpc = "start" /\ VisitBlock
    \/ gpc = "start" /\ LeaveScope
    \/ gpc = "start" /\ VisitLiteral
    \/ gpc = "start" /\ VisitIdentifier
    \/ gpc = "start" /\ VisitFallback
    \/ gpc = "start" /\ VisitFuncDecl
    \/ gpc = "start" /\ FuncDeclExit
    \/ gpc = "start" /\ VisitVarDecl
    \/ gpc = "start" /\ ArrayInitElem
    \/ gpc = "start" /\ ArrayInitDone
    \/ gpc = "start" /\ VarDeclInit
    \/ gpc = "start" /\ VisitPrintStmt
    \/ gpc = "start" /\ PrintArg
    \/ gpc = "start" /\ VisitReturnStmt
    \/ gpc = "start" /\ ReturnCheck
    \/ gpc = "start" /\ VisitIfStmt
    \/ gpc = "start" /\ IfThen
    \/ gpc = "start" /\ IfElse
    \/ gpc = "start" /\ VisitWhileStmt
    \/ gpc = "start" /\ WhileBody
    \/ gpc = "start" /\ LoopExit
    \/ gpc = "start" /\ VisitDoWhileStmt
    \/ gpc = "start" /\ DoAfterBody
    \/ gpc = "start" /\ DoCond
    \/ gpc = "start" /\ VisitForStmt
    \/ gpc = "start" /\ ForCond
    \/ gpc = "start" /\ ForExit
    \/ gpc = "start" /\ VisitAssign
    \/ gpc = "start" /\ AssignValue
    \/ gpc = "start" /\ AssignDone
    \/ gpc = "start" /\ VisitBinOper
    \/ gpc = "start" /\ VisitArrayIndex
    \/ gpc = "start" /\ ArrayIndexDone
    \/ gpc = "start" /\ BinOperDone
    \/ gpc = "start" /\ VisitCall
    \/ gpc = "start" /\ CallArg
    \/ gpc = "start" /\ CallDone
    \/ Checked /\ GenParse
    \/ Checked /\ GenHeader
    \/ Checked /\ GenGlobalDecl
    \/ Checked /\ GenGlobalsDone
    \/ Checked /\ GenFunction
    \/ Checked /\ GenStatement
    \/ Checked /\ GenFunctionEnd
    \/ Checked /\ Finalize
    \/ Checked /\ WriteOutLl
    \/ Checked /\ WriteStdout

SpecPipeline == InitPipeline /\ [][NextPipeline]_vars

(***************************************************************************)
(* Reading a program as a tree, for the statements about whole programs.   *)
(***************************************************************************)
Present(ns) == SelectSeq(ns, LAMBDA c : c.k # "None")

Children(n) ==
    CASE n.k = "Program" -> n.body
      [] n.k = "Block" -> n.stmts
      [] n.k = "VarDecl" -> Present(<<n.init>>)
      [] n.k = "PrintStmt" -> n.args
      [] n.k = "ReturnStmt" -> Present(<<n.expr>>)
      [] n.k = "IfStmt" -> Present(<<n.cond, n.then, n.otherwise>>)
      [] n.k = "WhileStmt" -> Present(<<n.cond, n.body>>)
      [] n.k = "DoWhileStmt" -> Present(<<n.body, n.cond>>)
      [] n.k = "ForStmt" -> Present(<<n.init, n.cond, n.step, n.body>>)
      [] n.k = "Assign" -> <<n.target, n.value>>
      [] n.k = "BinOper" -> <<n.left, n.right>>
      [] n.k = "ArrayIndex" -> <<n.array, n.index>>
      [] n.k = "Call" -> n.args
      [] OTHER -> <<>>

Range(s) == {s[i] : i \in DOMAIN s}

RECURSIVE AllNodes(_)
AllNodes(n) == {n} \cup UNION {AllNodes(c) : c \in Range(Children(n))}

\* the break and continue statements of n that no loop of n encloses
RECURSIVE OutsideLoop(_)
OutsideLoop(n) ==
    CASE n.k \in {"BreakStmt", "ContinueStmt"} -> {n}
      [] n.k \in {"WhileStmt", "DoWhileStmt", "ForStmt"} -> {}
      [] OTHER -> UNION {OutsideLoop(c) : c \in Range(Children(n))}

\* every control path through n ends in a return with a value
RECURSIVE ReturnsAlways(_)
ReturnsAlways(n) ==
    CASE n.k = "ReturnStmt" -> n.expr.k # "None"
      [] n.k = "Block" -> \E i \in DOMAIN n.stmts : ReturnsAlways(n.stmts[i])
      [] n.k = "IfStmt" ->
           /\ n.then.k # "None"
           /\ n.otherwise.k # "None"
           /\ ReturnsAlways(n.then)
           /\ ReturnsAlways(n.otherwise)
      [] n.k = "DoWhileStmt" -> n.body.k # "None" /\ ReturnsAlways(n.body)
      [] OTHER -> FALSE

Recorded(m) == \E i \in DOMAIN MSGS : MSGS[i] = m

Count(m) == Cardinality({i \in DOMAIN MSGS : MSGS[i] = m})

Analysed == pc \in {"semantic_errors", "semantic_ok"}

\* the statement list written in the source, as the parser built it
SourceStmts == Stmts(source.forms)

(***************************************************************************)
(* Reading the module text: blocks, terminators and the names defined.     *)
(***************************************************************************)
IsTerminator(ln) == ln.op \in {"br", "ret"}

\* a line that ends the block before it: the next label or the closing brace
EndsBlock(ln) == ln.op \in {"label", "close"}

\* the names a line defines as registers: the result of an instruction, or
\* the parameters of a function
RegistersOf(ln) ==
    IF ln.op = "define" THEN ln.params
    ELSE IF ln.def # "" /\ ln.op \notin {"label", "global", "declare", "constant"}
    THEN <<ln.def>>
    ELSE <<>>

RECURSIVE Registers(_)
Registers(lines) ==
    IF lines = <<>> THEN <<>> ELSE RegistersOf(Head(lines)) \o Registers(Tail(lines))

NoDuplicates(seq) == \A i, j \in DOMAIN seq : seq[i] = seq[j] => i = j

\* the module text is out: on stdout or in out.ll
ModuleWritten == stdout # <<>> \/ out_ll # <<>>

(***************************************************************************)
(* C1: code generation is gated on the semantic pass: the module text is   *)
(* written only after semantic analysis has run on the tree and            *)
(* errors_detected() is false.                                             *)
(***************************************************************************)
C1_GatedOnAnalysis ==
    ModuleWritten => (Analysed /\ ~errors_detected)

(***************************************************************************)
(* C2: in the emitted module every basic block has exactly one terminator  *)
(* (br or ret) and it is the block's last instruction: no instruction      *)
(* follows a terminator inside a block, and no block falls through into    *)
(* the next label or the closing brace.                                    *)
(***************************************************************************)
C2_OneTerminatorPerBlock ==
    \A i \in 1..(Len(stdout) - 1) :
        IsTerminator(stdout[i]) <=> EndsBlock(stdout[i + 1])

(***************************************************************************)
(* C3: every register name defined in the module text is defined exactly   *)
(* once module-wide, the %tN temporaries and the %<param> names of the     *)
(* function parameters together.                                           *)
(***************************************************************************)
C3_UniqueRegisters == NoDuplicates(Registers(cg.ir.lines))

(***************************************************************************)
(* C4: Check.run never stops at the first diagnostic, and after a          *)
(* diagnostic every remaining declaration, statement and sub-expression is *)
(* still visited, the arguments of a call with an undeclared callee or a   *)
(* wrong argument count included: every use of a name declared nowhere     *)
(* has its own "undeclared identifier" diagnostic when the pass ends.      *)
(***************************************************************************)
C4_EveryErrorReported ==
    Analysed =>
        \A n \in AllNodes(program) :
            (n.k = "Identifier" /\ n.name = "zz")
                => Recorded(error(E_UNDECLARED \o n.name, n.lineno))

(***************************************************************************)
(* C5: every identifier read that happens while the variable has had no    *)
(* prior write gets exactly one use-before-assignment diagnostic: no read  *)
(* gets two, and the read of x right after "x: integer;" gets one.         *)
(***************************************************************************)
C5_ExactlyOnePerRead ==
    /\ \A n \in AllNodes(program) :
           n.k = "Identifier" => Count(error(E_UBA \o n.name, n.lineno)) <= 1
    /\ Analysed =>
           \A i \in 1..(Len(source.forms) - 1) :
               (source.forms[i] = 1 /\ source.forms[i + 1] \in {2, 4})
                   => Count(error(E_UBA \o "x", 10 * (i + 1) + 1)) = 1

(***************************************************************************)
(* C6: use before assignment is decided per control path: when x is        *)
(* declared without initializer and assigned only inside one branch of an  *)
(* if, or only inside a loop body that may run zero times, a read of x     *)
(* after that construct is reported.                                       *)
(***************************************************************************)
C6_ReadAfterConditionalWrite ==
    Analysed =>
        \A i \in 1..(Len(source.forms) - 1) :
            (/\ source.wrapper = "fn"
             /\ \A j \in 1..i : source.forms[j] \in {5, 6}
             /\ source.forms[i + 1] \in {2, 4})
                => Recorded(error(E_UBA \o "x", 10 * (i + 1) + 1))

(***************************************************************************)
(* C7: for every non-void function a missing-return diagnostic is recorded *)
(* unless every control path through the body ends in a return with a      *)
(* value; a function whose only return sits inside an if without else is   *)
(* reported.                                                               *)
(***************************************************************************)
C7_MissingReturn ==
    Analysed =>
        \A n \in AllNodes(program) :
            (n.k = "VarDecl" /\ n.type.k = "FuncType" /\ resolve_type(n.type.ret) # "void")
                => (Recorded(error(E_NO_RETURN \o n.name, n.lineno))
                        <=> ~ReturnsAlways(n.init))

(***************************************************************************)
(* C8: for "main: function integer() = { return 1; }" the analysis records *)
(* zero diagnostics.                                                       *)
(***************************************************************************)
C8_MainNoDiagnostics ==
    (Analysed /\ source = [wrapper |-> "main", forms |-> <<12>>]) => MSGS = <<>>

(***************************************************************************)
(* C9: a scalar declared without initializer is marked uninitialized, and  *)
(* reading it in the initializer of the next declaration (x: integer;      *)
(* y: integer = x;) records a use-before-assignment diagnostic naming x.   *)
(***************************************************************************)
\* the statement forms that leave the outer x without a write
NoWriteForms == StmtForms \ {3, 5, 6, 11}

\* statement i is "y: integer = x;" and the x it reads was declared without
\* initializer, with no write to it in between
ReadsUnassigned(i) ==
    /\ source.forms[i] = 2
    /\ \A j \in 1..(i - 1) : source.forms[j] \in NoWriteForms
    /\ source.wrapper = "fn" \/ \E j \in 1..(i - 1) : source.forms[j] = 1

C9_UseBeforeAssignment ==
    \A i \in DOMAIN source.forms :
        ReadsUnassigned(i) =>
            /\ (/\ pc = "check"
                /\ stack # <<>>
                /\ Top = Visit(SourceStmts[i], Top.env, FALSE))
                   => is_initialized(symtabs, inits, Top.env, "x") = "False"
            /\ Analysed => Recorded(error(E_UBA \o "x", 10 * i + 1))

C9_Witness ==
    /\ Analysed
    /\ source = [wrapper |-> "top", forms |-> <<1, 2>>]
    /\ Recorded(error(E_UBA \o "x", 21))

(***************************************************************************)
(* C10: a break or continue visited inside the body of at least one        *)
(* enclosing loop produces no diagnostic, and outside any loop it produces *)
(* its "outside a loop" diagnostic; the diagnostic is produced iff the     *)
(* loop-depth counter is not positive when the statement is visited.       *)
(***************************************************************************)
OutsideMsg(n) ==
    error(IF n.k = "BreakStmt" THEN E_BREAK ELSE E_CONTINUE, n.lineno)

ArrayDecls ==
    {n \in AllNodes(program) :
        n.k = "VarDecl" /\ n.type.k = "ArrayType" /\ n.init.k = "Call"
        /\ n.type.size.k = "Integer"}

C11_InitializerSize ==
    Analysed =>
        \A n \in ArrayDecls :
            Recorded(error(E_ARR_COUNT \o n.name, n.lineno))
                <=> (Len(n.init.args) # n.type.size.value)

\* a short list reported at its line next to an accepted empty array
C11_Witness ==
    /\ Analysed
    /\ source = [wrapper |-> "top", forms |-> <<121, 100>>]
    /\ Recorded(error(E_ARR_COUNT \o "v", 10))
    /\ ~Recorded(error(E_ARR_COUNT \o "v", 20))

(***************************************************************************)
(* C12: when Check.run has been called twice on the same tree, each time   *)
(* with a fresh analyzer, the second call yields the sequence of           *)
(* diagnostics the first call yielded.                                     *)
(***************************************************************************)
C12_Idempotent ==
    (Analysed /\ Len(runs.done) = 2) => runs.done[2] = runs.done[1]

(***************************************************************************)
(* Lexical scoping read off the tree.  A scope is the names visible (env,  *)
(* with what each one names) and the names declared in the scope itself    *)
(* (locals).  Walk(n, sc) gives the scope after n and the facts about the  *)
(* nodes the analyzer visits under n, each one <<tag, name, line>>:        *)
(*   "seen"        an Identifier that is visited                           *)
(*   "undeclared"  one of them that no visible declaration names           *)
(*   "declared"    a declaration or parameter                              *)
(*   "duplicate"   one of them whose name its own scope already holds      *)
(*   "typed"       a scalar declaration whose initializer is an Identifier *)
(*                 bound to a declaration of the declared type             *)
(*   "mistyped"    the same, bound to a declaration of another type        *)
(*   "assignable"  an assignment between operands of compatible types      *)
(*   "unassignable" an assignment between operands of incompatible types   *)
(*   "accepted"    a call of a function in scope, with as many arguments   *)
(*                 as parameters, each compatible with its parameter       *)
(*   "rejected"    any other call of a name that is not a built-in         *)
(* Two types are compatible when they are the same type or arrays of the   *)
(* same base type.  Operands whose type the declarations in scope do not   *)
(* give (compound expressions, undeclared names) yield no fact.            *)
(***************************************************************************)
Declare(sc, name, d) ==
    IF name \in sc.locals THEN sc
    ELSE [env |-> (name :> d) @@ sc.env, locals |-> sc.locals \cup {name}]

Inner(sc) == [env |-> sc.env, locals |-> {}]

VarSym(n) ==
    [fn |-> FALSE, arity |-> 0, type |-> resolve_type(n.type), params |-> <<>>]

FnSym(n) ==
    [fn |-> TRUE, arity |-> Len(n.type.params), type |-> resolve_type(n.type),
     params |-> [i \in DOMAIN n.type.params |-> resolve_type(n.type.params[i].type)]]

\* the type the declarations in scope give an operand
OperandType(e, sc) ==
    CASE e.k = "Integer" -> "integer"
      [] e.k = "Boolean" -> "boolean"
      [] e.k = "Float" -> "float"
      [] e.k = "Identifier" /\ e.name \in DOMAIN sc.env -> sc.env[e.name].type
      [] OTHER -> NoType

Compatible(a, b) ==
    \/ a = b
    \/ array_base_from_name(a) # NoType
       /\ array_base_from_name(a) = array_base_from_name(b)

AssignFacts(n, sc) ==
    IF OperandType(n.target, sc) = NoType \/ OperandType(n.value, sc) = NoType THEN {}
    ELSE {<<(IF Compatible(OperandType(n.target, sc), OperandType(n.value, sc))
             THEN "assignable" ELSE "unassignable"), "=", n.lineno>>}

BuiltIns == {"array_init", "print", "array_length"}

CallFacts(n, sc) ==
    IF n.func.k # "Identifier" \/ n.func.name \in BuiltIns THEN {}
    ELSE IF n.func.name \notin DOMAIN sc.env THEN {<<"rejected", n.func.name, n.lineno>>}
    ELSE IF ~sc.env[n.func.name].fn \/ sc.env[n.func.name].arity # Len(n.args)
    THEN {<<"rejected", n.func.name, n.lineno>>}
    ELSE IF \E i \in DOMAIN n.args : OperandType(n.args[i], sc) = NoType THEN {}
    ELSE {<<(IF \A i \in DOMAIN n.args :
                  Compatible(OperandType(n.args[i], sc), sc.env[n.func.name].params[i])
             THEN "accepted" ELSE "rejected"), n.func.name, n.lineno>>}

Walked(facts, sc) == [facts |-> facts, sc |-> sc]

DeclFacts(sc, n) ==
    {<<"declared", n.name, n.lineno>>}
    \cup (IF n.name \in sc.locals THEN {<<"duplicate", n.name, n.lineno>>} ELSE {})

RECURSIVE DeclareParams(_, _)
DeclareParams(r, params) ==
    IF params = <<>> THEN r
    ELSE DeclareParams(Walked(r.facts \cup DeclFacts(r.sc, Head(params)),
                              Declare(r.sc, Head(params).name, VarSym(Head(params)))),
                       Tail(params))

\* the arguments of a call that are visited, given the names in scope
ArgsVisited(n, sc) ==
    IF n.func.name # "array_init" /\ n.func.name \in DOMAIN sc.env
       /\ sc.env[n.func.name].fn
       /\ sc.env[n.func.name].arity < Len(n.args)
    THEN SubSeq(n.args, 1, sc.env[n.func.name].arity)
    ELSE n.args

\* what the binding of the initializer says about a scalar declaration
InitFacts(n, sc) ==
    IF n.init.k = "Identifier" /\ n.type.k = "SimpleType"
       /\ n.init.name \in DOMAIN sc.env
    THEN {<<(IF sc.env[n.init.name].type = resolve_type(n.type)
             THEN "typed" ELSE "mistyped"), n.name, n.lineno>>}
    ELSE {}

Join(a, b) == Walked(a.facts \cup b.facts, b.sc)

RECURSIVE Walk(_, _)
RECURSIVE WalkAll(_, _)
\* the nodes of ns one after the other, each one in the scope the one before
\* it left
WalkAll(ns, sc) ==
    IF ns = <<>> THEN Walked({}, sc)
    ELSE LET h == Walk(Head(ns), sc)
         IN Join(h, WalkAll(Tail(ns), h.sc))

\* the nodes of ns, each one in a scope of its own inside sc
WalkEach(ns, sc) ==
    Walked(UNION {Walk(c, Inner(sc)).facts : c \in Range(ns)}, sc)

Walk(n, sc) ==
    CASE n.k = "Identifier" ->
           Walked({<<"seen", n.name, n.lineno>>}
                  \cup (IF n.name \in DOMAIN sc.env THEN {}
                        ELSE {<<"undeclared", n.name, n.lineno>>}), sc)
      [] n.k = "VarDecl" /\ n.type.k = "FuncType" ->
           LET sc1 == Declare(sc, n.name, FnSym(n))
               fenv == DeclareParams(Walked(DeclFacts(sc, n), Inner(sc1)),
                                     n.type.params)
               body == IF n.init.k = "Block" THEN Walk(n.init, fenv.sc)
                       ELSE Walked({}, fenv.sc)
           IN Walked(fenv.facts \cup body.facts, sc1)
      [] n.k = "VarDecl" /\ n.type.k # "FuncType" ->
           LET sc1 == Declare(sc, n.name, VarSym(n))
               init == IF n.init.k = "None" THEN Walked({}, sc1)
                       ELSE Walk(n.init, sc1)
           IN Walked(DeclFacts(sc, n) \cup InitFacts(n, sc1) \cup init.facts, sc1)
      [] n.k = "Program" -> WalkAll(n.body, sc)
      [] n.k = "Block" -> Walked(WalkAll(n.stmts, Inner(sc)).facts, sc)
      [] n.k = "PrintStmt" -> WalkAll(n.args, sc)
      [] n.k = "ReturnStmt" -> WalkAll(Present(<<n.expr>>), sc)
      [] n.k = "IfStmt" ->
           Join(WalkAll(Present(<<n.cond>>), sc),
                WalkEach(Present(<<n.then, n.otherwise>>), sc))
      [] n.k = "WhileStmt" ->
           Join(WalkAll(Present(<<n.cond>>), sc), WalkEach(Present(<<n.body>>), sc))
      [] n.k = "DoWhileStmt" ->
           Join(WalkEach(Present(<<n.body>>), sc), WalkAll(Present(<<n.cond>>), sc))
      [] n.k = "ForStmt" ->
           Walked(WalkAll(Present(<<n.init, n.cond, n.step, n.body>>),
                          Inner(sc)).facts, sc)
      [] n.k = "Assign" ->
           Join(Walked(AssignFacts(n, sc), sc), WalkAll(<<n.target, n.value>>, sc))
      [] n.k = "BinOper" -> WalkAll(<<n.left, n.right>>, sc)
      [] n.k = "ArrayIndex" -> WalkAll(<<n.array, n.index>>, sc)
      [] n.k = "Call" ->
           Join(Walked(CallFacts(n, sc), sc), WalkAll(ArgsVisited(n, sc), sc))
      [] OTHER -> Walked({}, sc)

Scoped == Walk(program, [env |-> <<>>, locals |-> {}]).facts

Fact(tag) == {<<f[2], f[3]>> : f \in {g \in Scoped : g[1] = tag}}

(***************************************************************************)
(* C13: when the analysis of a program has finished, an Identifier that    *)
(* the analyzer visited has the undeclared-identifier diagnostic at its    *)
(* line if and only if no declaration of its name is in its scope or in an *)
(* enclosing one; a declaration made in a sibling scope, or in a nested    *)
(* scope that was left before the identifier, does not count.  And the     *)
(* visit of an Identifier whose type the caller reads hands back no type   *)
(* exactly when no such declaration exists.                                *)
(***************************************************************************)
UndeclaredReported ==
    Analysed =>
        \A id \in Fact("seen") :
            Recorded(error(E_UNDECLARED \o id[1], id[2])) <=> (id \in Fact("undeclared"))

UndeclaredUntyped ==
    (Visiting({"Identifier"}) /\ Top.keep /\ stack' = Rest /\ vals' # vals)
        => ((Head(vals') = NoType) <=> (<<Top.n.name, Top.n.lineno>> \in Fact("undeclared")))

C13_ScopeChain == []UndeclaredReported /\ [][UndeclaredUntyped]_vars

\* x is declared in a block of main and read in the block after it
C13_Witness ==
    /\ Analysed
    /\ source = [wrapper |-> "main", forms |-> <<13, 17>>]
    /\ Recorded(error(E_UNDECLARED \o "x", 21))

(***************************************************************************)
(* C14: a declaration or parameter whose name its own scope already holds  *)
(* is reported as a duplicate, and no other declaration is: a name that is *)
(* declared again in a nested scope (function body, block, branch of an    *)
(* if, body of a loop) is not reported.  The name stays bound to the first *)
(* declaration of the innermost scope that declares it, and only while     *)
(* that scope is open:  y: integer = <name>;  is reported as incompatible  *)
(* exactly when that declaration is not an integer.                        *)
(***************************************************************************)
DuplicateReported ==
    \A d \in Fact("declared") :
        Recorded(error(E_DUP \o d[1], d[2])) <=> (d \in Fact("duplicate"))

BoundToFirst ==
    \A d \in Fact("typed") \cup Fact("mistyped") :
        Recorded(error(E_INIT \o d[1], d[2])) <=> (d \in Fact("mistyped"))

C14_DuplicatesAndShadowing == Analysed => (DuplicateReported /\ BoundToFirst)

\* x: integer; x: boolean; f: function integer(a: integer) =
\* { { x: boolean = true; y: integer = x; }  y: integer = x; }:
\* the second x is reported, the x of the block is not; the y of the block is
\* incompatible with the x of the block, the y after it is compatible with
\* the first x
C14_Witness ==
    /\ Analysed
    /\ source = [wrapper |-> "dup", forms |-> <<19, 2>>]
    /\ Recorded(error(E_DUP \o "x", 5))
    /\ ~Recorded(error(E_DUP \o "x", 11))
    /\ Recorded(error(E_INIT \o "y", 14))
    /\ ~Recorded(error(E_INIT \o "y", 20))

(***************************************************************************)
(* C15: after any sequence of calls, errors_detected() is true exactly     *)
(* when error() was called after the last clear_errors() (or, without one, *)
(* at all); a warn() appends its message and leaves the flag as it was;    *)
(* and a call other than clear_errors() appends one message to the list    *)
(* and changes nothing else of it.                                         *)
(***************************************************************************)
LastClear ==
    IF \E i \in DOMAIN calls : calls[i].op = "clear_errors"
    THEN CHOOSE i \in DOMAIN calls :
            /\ calls[i].op = "clear_errors"
            /\ \A j \in (i + 1)..Len(calls) : calls[j].op # "clear_errors"
    ELSE 0

SinceClear == SubSeq(calls, LastClear + 1, Len(calls))

AnyErrorExact ==
    errors_detected <=> (\E i \in DOMAIN SinceClear : SinceClear[i].op = "error")

WarnLeavesFlag ==
    (calls' # calls /\ calls'[Len(calls')].op = "warn")
        => /\ HAD_ERRORS' = HAD_ERRORS
           /\ MSGS' = Append(MSGS, calls'[Len(calls')].msg)

OnlyAppends ==
    (calls' # calls /\ calls'[Len(calls')].op # "clear_errors")
        => MSGS' = Append(MSGS, calls'[Len(calls')].msg)

C15_SinkExact ==
    /\ []AnyErrorExact
    /\ [][WarnLeavesFlag]_vars
    /\ [][OnlyAppends]_vars

\* error, clear_errors, warn: a message is recorded and the query says no
C15_Witness ==
    /\ Len(calls) = 3
    /\ calls[1].op = "error"
    /\ calls[2].op = "clear_errors"
    /\ calls[3].op = "warn"
    /\ Len(MSGS) = 1
    /\ ~errors_detected

(***************************************************************************)
(* C16: for  a: array[3] integer = {1, 2, 3};  print(a[1]);  with the      *)
(* array local to main or global, the analysis ends without a diagnostic,  *)
(* and the module holds one array [3 x i32] for a, one element address of  *)
(* index 1 taken from the first element of that array, one load from that  *)
(* address, and one call of printf, with the integer format and the value  *)
(* loaded.                                                                 *)
(***************************************************************************)
ScenarioC ==
    \/ source = [wrapper |-> "vmain", forms |-> <<24, 25>>]
    \/ source = [wrapper |-> "amain", forms |-> <<25>>]

Compiled == Analysed /\ gpc = "done"

LinesWhere(Test(_)) == {i \in DOMAIN stdout : Test(stdout[i])}

\* the lines that make an array of three integers, and the name of the array
IsArray3(ln) == ln.op \in {"alloca", "global"} /\ ln.args[1] = ArrayTy(3, LLVM_INT)

\* the lines that take the address of the first element of the array at name
IsFirstElem(ln, name) ==
    /\ ln.op = "getelementptr"
    /\ ln.args = <<ArrayTy(3, LLVM_INT), ArrayTy(3, LLVM_INT) \o "* " \o name,
                   "i32 0", "i32 0">>

\* the lines that take the address of element 1 from the pointer base
IsElem1(ln, base) ==
    /\ ln.op = "getelementptr"
    /\ ln.args = <<LLVM_INT, "i32* " \o base, "i32 1">>

IsIndex1(ln) == ln.op = "getelementptr" /\ ln.args[Len(ln.args)] = "i32 1"

IsLoadFrom(ln, ptr) == ln.op = "load" /\ ln.args = <<LLVM_INT, "i32* " \o ptr>>

IsPrintf(ln) == ln.op = "call" /\ ln.args[1] = "i32 (i8*, ...) @printf"

IsIntFormat(ln, reg) ==
    /\ ln.op = "getelementptr"
    /\ ln.def = reg
    /\ ln.args[2] = "[4 x i8]* @.fmt_int"

ScenarioCModule ==
    /\ Cardinality(LinesWhere(IsArray3)) = 1
    /\ Cardinality(LinesWhere(IsIndex1)) = 1
    /\ Cardinality(LinesWhere(IsPrintf)) = 1
    /\ \E a, b, e, l, p \in DOMAIN stdout :
          /\ IsArray3(stdout[a])
          /\ IsFirstElem(stdout[b], stdout[a].def)
          /\ IsElem1(stdout[e], stdout[b].def)
          /\ IsLoadFrom(stdout[l], stdout[e].def)
          /\ \A m \in DOMAIN stdout : IsLoadFrom(stdout[m], stdout[e].def) => m = l
          /\ IsPrintf(stdout[p])
          /\ stdout[p].args[3] = "i32 " \o stdout[l].def
          /\ \E f \in DOMAIN stdout :
                /\ IsIntFormat(stdout[f], stdout[f].def)
                /\ stdout[p].args[2] = "i8* " \o stdout[f].def

C16_ScenarioC ==
    (Compiled /\ ScenarioC) => (runs.done[1] = <<>> /\ ScenarioCModule)

C16_Witness ==
    /\ Compiled
    /\ source = [wrapper |-> "vmain", forms |-> <<24, 25>>]
    /\ runs.done = <<<<>>>>
    /\ Cardinality(LinesWhere(IsIndex1)) = 1

(***************************************************************************)
(* C17: when the generator meets an identifier that neither a scope of the *)
(* function nor the globals hold, it stops and no module text is produced. *)
(* The identifiers taken are those of the first statement of a function    *)
(* body (the generator always reaches it) whose name no declaration and no *)
(* parameter of the whole program has.                                     *)
(***************************************************************************)
DeclaredNames ==
    {n.name : n \in {m \in AllNodes(program) : m.k = "VarDecl"}}
    \cup UNION {{f.type.params[i].name : i \in DOMAIN f.type.params} :
                   f \in {m \in AllNodes(program) : IsFunction(m)}}

FirstStmts ==
    {f.init.stmts[1] :
        f \in {m \in Range(program.body) :
                  IsFunction(m) /\ m.init.k = "Block" /\ m.init.stmts # <<>>}}

UnknownMet ==
    /\ program.k = "Program"
    /\ \E st \in FirstStmts : \E n \in AllNodes(st) :
          n.k = "Identifier" /\ n.name \notin DeclaredNames

C17_UnknownIdentifierFatal ==
    UnknownMet => (output_ir = <<>> /\ out_ll = <<>> /\ stdout = <<>>)

(***************************************************************************)
(* C18: an assignment is reported as a type mismatch exactly when the      *)
(* types of its target and its value are not compatible: scalars of        *)
(* different types, an array and a scalar, arrays of different base types; *)
(* arrays of one base type are compatible whatever their sizes.            *)
(***************************************************************************)
C18_AssignMismatch ==
    Analysed =>
        /\ \A a \in Fact("assignable") : ~Recorded(error(E_ASSIGN, a[2]))
        /\ \A a \in Fact("unassignable") : Recorded(error(E_ASSIGN, a[2]))

(***************************************************************************)
(* C19: a call of a user function is free of call diagnostics exactly when *)
(* the callee is a function in scope, the arguments are as many as the     *)
(* parameters, and each argument is compatible with its parameter, an      *)
(* array of a fixed size with an array parameter without size included.    *)
(***************************************************************************)
CallReported(name, lineno) ==
    \/ Recorded(error(E_FN_UNDECLARED \o name, lineno))
    \/ Recorded(error(E_ARITY \o name, lineno))
    \/ Recorded(error(E_ARG \o name, lineno))

C19_CallAccepted ==
    Analysed =>
        /\ \A c \in Fact("accepted") : ~CallReported(c[1], c[2])
        /\ \A c \in Fact("rejected") : CallReported(c[1], c[2])

(***************************************************************************)
(* C20: inside the body of a function, a call of the function itself is    *)
(* not reported as a call of an undeclared function, and a read of a       *)
(* parameter is not reported as a use before assignment.  The names taken  *)
(* are those the function does not declare again in its body.              *)
(***************************************************************************)
Functions ==
    {f \in Range(program.body) : IsFunction(f) /\ f.init.k = "Block"}

BodyNames(f) == {n.name : n \in {m \in AllNodes(f.init) : m.k = "VarDecl"}}

ParamNames(f) == {f.type.params[i].name : i \in DOMAIN f.type.params}

RecursionResolves ==
    \A f \in Functions : \A c \in AllNodes(f.init) :
        (/\ c.k = "Call"
         /\ c.func.name = f.name
         /\ f.name \notin BodyNames(f) \cup ParamNames(f))
            => ~Recorded(error(E_FN_UNDECLARED \o f.name, c.lineno))

ParamsInitialized ==
    \A f \in Functions : \A n \in AllNodes(f.init) :
        (/\ n.k = "Identifier"
         /\ n.name \in ParamNames(f) \ BodyNames(f))
            => ~Recorded(error(E_UBA \o n.name, n.lineno))

C20_RecursionAndParams == Analysed => (RecursionResolves /\ ParamsInitialized)

(***************************************************************************)
(* C21: every function of the module text has exactly one ret, and it is   *)
(* the instruction right after the function's one endfn label: a return    *)
(* statement, with a value or without, gives no ret of its own.            *)
(***************************************************************************)
\* the lines of the function defined on line d: up to its closing brace
FunctionEnd(lines, d) ==
    CHOOSE c \in d..Len(lines) :
        lines[c].op = "close" /\ \A m \in d..(c - 1) : lines[m].op # "close"

\* the functions of the text that are closed: the lines of each
FunctionSpans(lines) ==
    {d..FunctionEnd(lines, d) :
        d \in {i \in DOMAIN lines :
                  /\ lines[i].op = "define"
                  /\ \E c \in i..Len(lines) : lines[c].op = "close"}}

IsEpilogueLabel(lines, i) ==
    /\ lines[i].op = "label"
    /\ \E n \in 0..Len(lines) : lines[i].def = "endfn." \o ToString(n)

SingleRet(lines, span) ==
    /\ Cardinality({i \in span : lines[i].op = "ret"}) = 1
    /\ Cardinality({i \in span : IsEpilogueLabel(lines, i)}) = 1
    /\ \A i \in span : lines[i].op = "ret" => IsEpilogueLabel(lines, i - 1)

C21_SingleRet ==
    \A span \in FunctionSpans(cg.ir.lines) : SingleRet(cg.ir.lines, span)

(***************************************************************************)
(* C22: at the entry point a global scalar has the value of its            *)
(* initializer, a literal or an expression over literals and the globals   *)
(* declared before it.  The module text names no procedure to run before   *)
(* the entry point, so at entry a global has the value written on its line.*)
(***************************************************************************)
\* the global scalars of the program that have an initializer
InitializedGlobals ==
    {i \in DOMAIN program.body :
        /\ IsGlobal(program.body[i])
        /\ program.body[i].type.k = "SimpleType"
        /\ program.body[i].init.k # "None"}

\* the declaration a name is bound to before declaration i: the first of them
Earlier(name, i) ==
    {j \in 1..(i - 1) : IsGlobal(program.body[j]) /\ program.body[j].name = name}

RECURSIVE HasValue(_, _)
HasValue(e, i) ==
    CASE IsLiteral(e) -> TRUE
      [] e.k = "BinOper" -> e.oper = "+" /\ HasValue(e.left, i) /\ HasValue(e.right, i)
      [] e.k = "Identifier" ->
           /\ Earlier(e.name, i) # {}
           /\ LET j == CHOOSE m \in Earlier(e.name, i) : \A q \in Earlier(e.name, i) : m <= q
              IN program.body[j].init.k # "None" /\ HasValue(program.body[j].init, j)
      [] OTHER -> FALSE

\* the value of an initializer that has one
RECURSIVE ValueOf(_, _)
ValueOf(e, i) ==
    CASE IsLiteral(e) -> e.value
      [] e.k = "BinOper" -> ValueOf(e.left, i) + ValueOf(e.right, i)
      [] e.k = "Identifier" ->
           LET j == CHOOSE m \in Earlier(e.name, i) : \A q \in Earlier(e.name, i) : m <= q
           IN ValueOf(program.body[j].init, j)

\* a value as the text of a constant of the lowered type
ValueText(v, llty) ==
    CASE llty = LLVM_BOOL -> IF v THEN "1" ELSE "0"
      [] llty = LLVM_FLOAT -> FloatText(v)
      [] OTHER -> ToString(v)

\* the lines that define the global of declaration d
GlobalLines(d) ==
    {i \in DOMAIN stdout : stdout[i].op = "global" /\ stdout[i].def = "@" \o d.name}

C22_GlobalInitializers ==
    gpc = "done" =>
        \A i \in InitializedGlobals :
            HasValue(program.body[i].init, i) =>
                /\ GlobalLines(program.body[i]) # {}
                /\ \A m \in GlobalLines(program.body[i]) :
                      stdout[m].args[2] =
                          ValueText(ValueOf(program.body[i].init, i),
                                    type_to_llvm(program.body[i].type))

(***************************************************************************)
(* C23: while the condition of a while, do-while or for loop is visited,   *)
(* and while the init and step of a for loop are visited, the loop-depth   *)
(* counter has the value it had before the loop statement: the number of   *)
(* loop bodies around the statement.                                       *)
(***************************************************************************)
IsLoop(n) == n.k \in {"WhileStmt", "DoWhileStmt", "ForStmt"}

\* the nodes of n, each with the number of loop bodies around it, n being
\* inside d of them
RECURSIVE Depths(_, _)
Depths(n, d) ==
    {<<n, d>>}
    \cup UNION {Depths(c, IF IsLoop(n) /\ c = n.body THEN d + 1 ELSE d) :
                   c \in Range(Children(n))}

\* the header of a loop: its condition, and the init and step of a for
Header(n) ==
    CASE n.k \in {"WhileStmt", "DoWhileStmt"} -> Present(<<n.cond>>)
      [] n.k = "ForStmt" -> Present(<<n.init, n.cond, n.step>>)
      [] OTHER -> <<>>

\* the nodes of the loop headers of the program, parts of them included
HeaderNodes ==
    UNION {UNION {AllNodes(h) : h \in Range(Header(n))} : n \in AllNodes(program)}

C23_LoopDepthOnlyInBody ==
    (/\ pc = "check"
     /\ stack # <<>>
     /\ Top.t = "visit"
     /\ Top.n \in HeaderNodes)
        => \A nd \in Depths(program, 0) : nd[1] = Top.n => loop_depth = nd[2]

(***************************************************************************)
(* C24: the lvalue-mode flag is true exactly while a node of the target    *)
(* subtree of an assignment is visited, and false while any other node is  *)
(* visited: after the target the flag has the value it had before the      *)
(* assignment, also for an assignment inside the target of another.        *)
(***************************************************************************)
\* the nodes of the targets of the assignments of the program
TargetNodes ==
    UNION {AllNodes(a.target) : a \in {m \in AllNodes(program) : m.k = "Assign"}}

C24_LvalueFlag ==
    (pc = "check" /\ stack # <<>> /\ Top.t = "visit")
        => (lhs_mode <=> Top.n \in TargetNodes)

(***************************************************************************)
(* C25: no store into an integer slot has a float as its value: a float    *)
(* stored into an integer scalar or array element is converted first, and  *)
(* the converted value is what is stored.                                  *)
(***************************************************************************)
\* the texts of the float constants
FloatTexts == {FloatText(v) : v \in 0..9}

\* the instructions whose result is a double
IsFloatDef(ln) ==
    \/ ln.op \in {"sitofp", "fadd", "fsub", "fmul", "fdiv"}
    \/ ln.op = "load" /\ ln.args[1] = LLVM_FLOAT

\* the names of the float values of the text: constants and registers
FloatNames(lines) ==
    FloatTexts \cup {lines[j].def : j \in {m \in DOMAIN lines : IsFloatDef(lines[m])}}

C25_FloatToIntStores ==
    \A i \in DOMAIN cg.ir.lines :
        cg.ir.lines[i].op = "store" =>
            \A nm \in FloatNames(cg.ir.lines) :
                cg.ir.lines[i].args[1] # LLVM_INT \o " " \o nm

(***************************************************************************)
(* C26: every arithmetic or comparison instruction of the module text is   *)
(* of type i32 or double, and both of its operands are of the type written *)
(* on it: boolean and char operands are widened, and the operand next to a *)
(* float is converted to float.                                            *)
(***************************************************************************)
\* the opcodes of the arithmetic and comparison instructions
BinaryOps ==
    {IntOps[p] : p \in DOMAIN IntOps} \cup {FloatOps[p] : p \in DOMAIN FloatOps}
    \cup {"icmp " \o ICmpOps[p] : p \in DOMAIN ICmpOps}
    \cup {"fcmp " \o FCmpOps[p] : p \in DOMAIN FCmpOps}

\* the type of the value called nm, when an instruction of the text tells it
TypesOf(lines, nm) ==
    {lines[j].args[1] : j \in {m \in DOMAIN lines :
                                  lines[m].def = nm /\ lines[m].op = "load"}}
    \cup {LLVM_FLOAT : j \in {m \in DOMAIN lines : lines[m].def = nm /\ IsFloatDef(lines[m])}}
    \cup {LLVM_INT : j \in {m \in DOMAIN lines :
                               lines[m].def = nm /\ lines[m].op \in {"zext", "fptosi"}}}

\* the values an operand may name: registers and constants
ValueNames(lines) ==
    {lines[j].def : j \in DOMAIN lines} \cup {ToString(v) : v \in 0..9} \cup FloatTexts

\* line i has the type ty written on it, and operands of that type only
CommonType(lines, i, ty) ==
    \A nm \in ValueNames(lines) :
        lines[i].args[1] = ty \o " " \o nm =>
            /\ ty \in {LLVM_INT, LLVM_FLOAT}
            /\ TypesOf(lines, nm) \subseteq {ty}
            /\ TypesOf(lines, lines[i].args[2]) \subseteq {ty}

C26_CommonOperandType ==
    \A i \in DOMAIN cg.ir.lines :
        cg.ir.lines[i].op \in BinaryOps =>
            \A ty \in ElemTypes : CommonType(cg.ir.lines, i, ty)

(***************************************************************************)
(* C27: a call that passes a local array of a literal size stores that     *)
(* size into the cell of the callee and the parameter position before the  *)
(* call instruction; and in the text of a function there is one load from  *)
(* the cell of the function and parameter index for each length query on   *)
(* that parameter: the query never gives a length recorded elsewhere.      *)
(***************************************************************************)
\* the lines of the function called name in the module text
SpanOf(lines, name) ==
    LET d == CHOOSE i \in DOMAIN lines : lines[i].op = "define" /\ lines[i].def = "@" \o name
    IN d..FunctionEnd(lines, d)

\* the length queries of the body of f on its parameter k
Queries(f, k) ==
    {n \in AllNodes(f.init) :
        /\ n.k = "Call"
        /\ n.func.name = "array_length"
        /\ n.args # <<>>
        /\ ArrayName(n.args[1]) = f.type.params[k].name}

CellLoads(lines, span, cell) ==
    {i \in span : lines[i].op = "load" /\ lines[i].args = <<"i32", "i32* " \o cell>>}

QueriesReadCell ==
    \A f \in Functions : \A k \in DOMAIN f.type.params :
        (f.type.params[k].type.k = "ArrayType" /\ f.type.params[k].name \notin BodyNames(f))
            => Cardinality(CellLoads(stdout, SpanOf(stdout, f.name), LenCell(f.name, k - 1)))
                  = Cardinality(Queries(f, k))

\* the local arrays of f of a literal size
SizedLocals(f) ==
    {d \in Range(f.init.stmts) :
        d.k = "VarDecl" /\ d.type.k = "ArrayType" /\ d.type.size.k = "Integer"}

\* in the lines of span a store of size n into cell comes before a call of callee
StoredBeforeCall(lines, span, n, cell, callee) ==
    \E st, cl \in span :
        /\ st < cl
        /\ lines[st].op = "store"
        /\ lines[st].args = <<"i32 " \o ToString(n), "i32* " \o cell>>
        /\ lines[cl].op = "call"
        /\ lines[cl].args[1] \in {t \o " @" \o callee : t \in ElemTypes}

CallsStoreLength ==
    \A f \in Functions : \A c \in AllNodes(f.init) :
        (c.k = "Call" /\ \E g \in Functions : g.name = c.func.name)
            => \A k \in DOMAIN c.args : \A d \in SizedLocals(f) :
                  (c.args[k].k = "Identifier" /\ c.args[k].name = d.name)
                      => StoredBeforeCall(stdout, SpanOf(stdout, f.name),
                                          d.type.size.value, LenCell(c.func.name, k - 1),
                                          c.func.name)

C27_LengthCells ==
    (gpc = "done" /\ source.wrapper = "lengths")
        => (CallsStoreLength /\ QueriesReadCell)

(***************************************************************************)
(* C28: the traversal state of Check.run is balanced.  Between any two     *)
(* steps of the traversal the three function-context stacks (expected      *)
(* return type, function name, seen-value-return flag) have the same       *)
(* length, which is the number of function declarations whose visit has    *)
(* begun and not ended, and the loop depth is not negative; when Check.run *)
(* has returned, with or without diagnostics, the three stacks are empty,  *)
(* the loop depth is 0 and the lvalue-mode flag is false.                  *)
(***************************************************************************)
\* the visits of a function declaration that are waiting for their body
FunctionsBeingVisited ==
    Cardinality({i \in 1..Len(stack) : stack[i].t = "func_exit"})

C28_BalancedTraversal ==
    /\ (pc = "check" \/ Analysed) =>
          /\ Len(fun_ret_stack) = FunctionsBeingVisited
          /\ Len(fun_name_stack) = FunctionsBeingVisited
          /\ Len(saw_return_stack) = FunctionsBeingVisited
          /\ loop_depth >= 0
    /\ Analysed =>
          /\ fun_ret_stack = <<>>
          /\ fun_name_stack = <<>>
          /\ saw_return_stack = <<>>
          /\ loop_depth = 0
          /\ lhs_mode = FALSE

\* Check.run has returned with diagnostics from a program whose function holds
\* a function of its own, a loop in each, an assignment and a return
C28_Witness ==
    /\ Analysed
    /\ source = [wrapper |-> "fn", forms |-> <<95, 6>>]
    /\ MSGS # <<>>
    /\ fun_ret_stack = <<>>
    /\ loop_depth = 0
    /\ lhs_mode = FALSE

\* two function declarations are being visited, inside a loop of the inner one
C28_Nested ==
    /\ pc = "check"
    /\ FunctionsBeingVisited = 2
    /\ loop_depth = 1
(***************************************************************************)
(* C29: initialization state belongs to a scope instance.  A scope that    *)
(* has been opened and declares nothing yet has no initialization entries, *)
(* whatever was recorded for scopes that were left before it; and the      *)
(* state a read of a name consults is the one recorded in the scope of the *)
(* declaration the name resolves to.                                       *)
(***************************************************************************)
\* the scopes of the chain of visits in progress
LiveScopes == 1..Len(symtabs)

ScopesStartEmpty ==
    \A ref \in LiveScopes :
        symtabs[ref].table = <<>> => init_map(inits, symtabs[ref].id) = <<>>

\* what _inits holds for the name in the scope that declares it
RecordedFor(env, name) ==
    LET decl_env == find_decl_env(symtabs, env, name)
        m == init_map(inits, symtabs[decl_env].id)
    IN IF name \in DOMAIN m THEN (IF m[name] THEN "True" ELSE "False") ELSE "None"

ReadsConsultDeclaration ==
    (/\ stack # <<>>
     /\ Top.t = "visit"
     /\ Top.n.k = "Identifier"
     /\ find_decl_env(symtabs, Top.env, Top.n.name) # 0)
        => is_initialized(symtabs, inits, Top.env, Top.n.name)
              = RecordedFor(Top.env, Top.n.name)

C29_InitsPerScopeInstance ==
    pc = "check" => (ScopesStartEmpty /\ ReadsConsultDeclaration)
(***************************************************************************)
(* C30: a declaration rejected as a duplicate in its scope changes nothing *)
(* about the existing symbol: the declaration the name is bound to and its *)
(* initialization status are the same after every step of the rejected     *)
(* declaration (the insertion that fails, and the end of its initializer)  *)
(* as before it.                                                           *)
(***************************************************************************)
\* the step at hand belongs to a variable declaration that is or was rejected
RejectedDeclaration ==
    /\ pc = "check"
    /\ stack # <<>>
    /\ Top.n.k = "VarDecl"
    /\ Top.n.type.k # "FuncType"
    /\ \/ Top.t = "visit" /\ SymAddRaises(symtabs, Top.env, Top.n.name)
       \/ /\ Top.t \in {"vardecl_init", "array_init_done"}
          /\ Recorded(error(E_DUP \o Top.n.name, Top.n.lineno))

SymbolUntouched ==
    LET env == Top.env
        name == Top.n.name
    IN /\ SymGet(symtabs', env, name) = SymGet(symtabs, env, name)
       /\ is_initialized(symtabs', inits', env, name)
             = is_initialized(symtabs, inits, env, name)

C30_RejectedDuplicateInert ==
    [][RejectedDeclaration => SymbolUntouched]_vars
====
